---- MODULE Spec2Model ----
(***************************************************************************)
(* Model of the tokenizer crate: token extraction (tokenizer.rs,           *)
(* trigram.rs), the path registry and posting maps (index.rs), the         *)
(* streaming build pipeline and the legacy chunked build (scanner.rs) and  *)
(* the query planner (query.rs).                                           *)
(*                                                                         *)
(* Bytes are integers 0..255, byte strings are sequences of bytes.         *)
(* Positions are 0-based as in the source: content[position] of the        *)
(* source is content[position + 1] here.                                   *)
(***************************************************************************)
EXTENDS Integers, Sequences, FiniteSets, TLC

\* ------------------------------------------------------------------------
\* Bounds of the model
\* ------------------------------------------------------------------------
\* directory entries the walker meets in one build
MaxFiles == 2
\* register_file calls explored on a bare path registry
MaxRegistered == 3
\* files registered on an index driven through its API
MaxApiFiles == 2

\* ------------------------------------------------------------------------
\* Program constants
\* ------------------------------------------------------------------------
MIN_TOKEN_LENGTH == 2
MIN_TRIGRAM_TOKEN_LENGTH == 3
BINARY_CHECK_LEN == 8192
PATH_CHANNEL_CAPACITY == 1024

\* ------------------------------------------------------------------------
\* Generic helpers
\* ------------------------------------------------------------------------
\* Option<T>: None is the empty tuple, Some(x) the one-element tuple
None == <<>>

Some(x) == <<x>>

Min(a, b) == IF a < b THEN a ELSE b

Range(s) == {s[i] : i \in 1..Len(s)}

\* the elements of a finite set of integers in ascending order
RECURSIVE SortedSeq(_)
SortedSeq(S) ==
    IF S = {} THEN <<>>
    ELSE LET m == CHOOSE x \in S : \A y \in S : x <= y
         IN  <<m>> \o SortedSeq(S \ {m})

\* needle occurs in hay as a contiguous slice (str::contains)
Contains(hay, needle) ==
    \E i \in 0..(Len(hay) - Len(needle)) :
        SubSeq(hay, i + 1, i + Len(needle)) = needle

\* ------------------------------------------------------------------------
\* Byte classes (u8::is_ascii_alphanumeric, is_ascii_uppercase)
\* ------------------------------------------------------------------------
is_ascii_uppercase(b) == b >= 65 /\ b <= 90

is_ascii_alphanumeric(b) ==
    \/ (b >= 48 /\ b <= 57)
    \/ (b >= 65 /\ b <= 90)
    \/ (b >= 97 /\ b <= 122)

\* tokenizer.rs: the bytes listed in is_exact_delimiter
ExactDelimiterBytes ==
    {32, 9, 10, 13, 40, 41, 91, 93, 123, 125, 60, 62, 34, 39, 96, 44, 59, 58,
     46, 43, 61, 47, 92, 64, 35, 36, 37, 94, 38, 42, 33, 63, 124, 126, 0}

is_exact_delimiter(byte) == byte \in ExactDelimiterBytes

\* faulty variant: the underscore is not taken for a token byte
is_exact_token_char_no_underscore(byte) ==
    is_ascii_alphanumeric(byte) \/ byte = 45

is_exact_token_char(byte) ==
    is_ascii_alphanumeric(byte) \/ byte = 95 \/ byte = 45

is_trigram_token_char(byte) ==
    is_ascii_alphanumeric(byte) \/ byte = 95 \/ byte = 45

\* faulty variant: bytes are kept as they are
to_lowercase_identity(b) == b

\* trigram.rs to_lowercase: b + 32 for A-Z, b otherwise
to_lowercase(b) == IF is_ascii_uppercase(b) THEN b + 32 ELSE b

\* str::to_lowercase restricted to the modelled bytes: ASCII letters are
\* lowered, every other byte (other ASCII, the bytes of U+FFFD) is kept
str_to_lowercase(s) == [i \in 1..Len(s) |-> to_lowercase(s[i])]

\* ------------------------------------------------------------------------
\* Hashing.  hash_token is FxHash over the byte slice; the model keeps the
\* key abstract and collision free: the key of a slice is the slice tagged
\* with its length prefix, as <[u8] as Hash>::hash feeds the hasher.
\* ------------------------------------------------------------------------
hash_token(token) == <<Len(token)>> \o token

\* ------------------------------------------------------------------------
\* Word tokenizer (TokenIterator): runs of ASCII alphanumerics
\* ------------------------------------------------------------------------
RECURSIVE TokenIterator_skip_delimiters(_, _)
TokenIterator_skip_delimiters(content, position) ==
    IF position < Len(content) /\ ~is_ascii_alphanumeric(content[position + 1])
    THEN TokenIterator_skip_delimiters(content, position + 1)
    ELSE position

RECURSIVE TokenIterator_read_token(_, _)
TokenIterator_read_token(content, position) ==
    IF position < Len(content) /\ is_ascii_alphanumeric(content[position + 1])
    THEN TokenIterator_read_token(content, position + 1)
    ELSE position

\* the sequence of items TokenIterator::next yields from `position` on
RECURSIVE TokenIterator_next(_, _)
TokenIterator_next(content, position) ==
    LET p1 == TokenIterator_skip_delimiters(content, position) IN
    IF p1 >= Len(content) THEN <<>>
    ELSE LET p2 == TokenIterator_read_token(content, p1) IN
         IF p2 > p1
         THEN (IF p2 - p1 >= MIN_TOKEN_LENGTH
               THEN <<hash_token(SubSeq(content, p1 + 1, p2))>>
               ELSE <<>>) \o TokenIterator_next(content, p2)
         ELSE <<>>

tokenize(content) == TokenIterator_next(content, 0)

tokenize_query(query) == tokenize(query)

\* ------------------------------------------------------------------------
\* Identifier-preserving tokenizer (ExactTokenIterator)
\* ------------------------------------------------------------------------
RECURSIVE ExactTokenIterator_skip_delimiters(_, _)
ExactTokenIterator_skip_delimiters(content, position) ==
    IF position < Len(content) /\ is_exact_delimiter(content[position + 1])
    THEN ExactTokenIterator_skip_delimiters(content, position + 1)
    ELSE position

\* position after the run of token bytes starting at `position`
RECURSIVE ExactTokenIterator_read_token(_, _)
ExactTokenIterator_read_token(content, position) ==
    IF position < Len(content) /\ is_exact_token_char(content[position + 1])
    THEN ExactTokenIterator_read_token(content, position + 1)
    ELSE position

\* faulty variant: a token shorter than MIN_TOKEN_LENGTH ends the iteration
RECURSIVE ExactTokenIterator_next_stops_at_short(_, _)
ExactTokenIterator_next_stops_at_short(content, position) ==
    LET p1 == ExactTokenIterator_skip_delimiters(content, position) IN
    IF p1 >= Len(content) THEN <<>>
    ELSE LET p2 == ExactTokenIterator_read_token(content, p1) IN
         IF p2 > p1
         THEN (IF p2 - p1 >= MIN_TOKEN_LENGTH
               THEN <<SubSeq(content, p1 + 1, p2)>>
                    \o ExactTokenIterator_next_stops_at_short(content, p2)
               ELSE <<>>)
         ELSE ExactTokenIterator_next_stops_at_short(content, p1 + 1)

\* the sequence of byte slices whose hashes ExactTokenIterator::next yields
RECURSIVE ExactTokenIterator_next(_, _)
ExactTokenIterator_next(content, position) ==
    LET p1 == ExactTokenIterator_skip_delimiters(content, position) IN
    IF p1 >= Len(content) THEN <<>>
    ELSE LET p2 == ExactTokenIterator_read_token(content, p1) IN
         IF p2 > p1
         THEN (IF p2 - p1 >= MIN_TOKEN_LENGTH
               THEN <<SubSeq(content, p1 + 1, p2)>>
               ELSE <<>>) \o ExactTokenIterator_next(content, p2)
         ELSE \* unknown byte: neither delimiter nor token byte, skipped
              ExactTokenIterator_next(content, p1 + 1)

tokenize_exact(content) ==
    LET slices == ExactTokenIterator_next(content, 0)
    IN  [i \in 1..Len(slices) |-> hash_token(slices[i])]

tokenize_query_exact(query) == tokenize_exact(query)

\* case-insensitive variant: each byte is lowercased before hashing
tokenize_query_exact_lower(query) ==
    LET slices == ExactTokenIterator_next(query, 0)
    IN  [i \in 1..Len(slices) |-> hash_token(str_to_lowercase(slices[i]))]

\* ------------------------------------------------------------------------
\* Trigram extractor (TrigramIterator)
\* ------------------------------------------------------------------------
pack_trigram(a, b, c) == a * 65536 + b * 256 + c

RECURSIVE TrigramIterator_skip_delimiters(_, _)
TrigramIterator_skip_delimiters(content, position) ==
    IF position < Len(content) /\ ~is_trigram_token_char(content[position + 1])
    THEN TrigramIterator_skip_delimiters(content, position + 1)
    ELSE position

\* the inner while loop of read_next_token: position after the token run
RECURSIVE TrigramIterator_token_end(_, _)
TrigramIterator_token_end(content, position) ==
    IF position < Len(content) /\ is_trigram_token_char(content[position + 1])
    THEN TrigramIterator_token_end(content, position + 1)
    ELSE position

\* faulty variant: the window that ends the token is not produced
RECURSIVE TrigramIterator_next_trigram_skip_last(_, _)
TrigramIterator_next_trigram_skip_last(token_buf, token_pos) ==
    IF token_pos + 3 < Len(token_buf)
    THEN <<pack_trigram(token_buf[token_pos + 1], token_buf[token_pos + 2],
                        token_buf[token_pos + 3])>>
         \o TrigramIterator_next_trigram_skip_last(token_buf, token_pos + 1)
    ELSE <<>>

\* next_trigram_from_token, repeated until it returns None
RECURSIVE TrigramIterator_next_trigram_from_token(_, _)
TrigramIterator_next_trigram_from_token(token_buf, token_pos) ==
    IF token_pos + 3 <= Len(token_buf)
    THEN <<pack_trigram(token_buf[token_pos + 1], token_buf[token_pos + 2],
                        token_buf[token_pos + 3])>>
         \o TrigramIterator_next_trigram_from_token(token_buf, token_pos + 1)
    ELSE <<>>

\* faulty variant: a token shorter than MIN_TRIGRAM_TOKEN_LENGTH ends the
\* iteration
RECURSIVE TrigramIterator_next_stops_at_short(_, _)
TrigramIterator_next_stops_at_short(content, position) ==
    LET p1 == TrigramIterator_skip_delimiters(content, position) IN
    IF p1 >= Len(content) THEN <<>>
    ELSE LET p2 == TrigramIterator_token_end(content, p1)
             token_buf == str_to_lowercase(SubSeq(content, p1 + 1, p2))
         IN  IF Len(token_buf) >= MIN_TRIGRAM_TOKEN_LENGTH
             THEN TrigramIterator_next_trigram_from_token(token_buf, 0)
                  \o TrigramIterator_next_stops_at_short(content, p2)
             ELSE <<>>

\* the sequence of items TrigramIterator::next yields from `position` on
RECURSIVE TrigramIterator_next(_, _)
TrigramIterator_next(content, position) ==
    LET p1 == TrigramIterator_skip_delimiters(content, position) IN
    IF p1 >= Len(content) THEN <<>>
    ELSE LET p2 == TrigramIterator_token_end(content, p1)
             token_buf == str_to_lowercase(SubSeq(content, p1 + 1, p2))
         IN  (IF Len(token_buf) >= MIN_TRIGRAM_TOKEN_LENGTH
              THEN TrigramIterator_next_trigram_from_token(token_buf, 0)
              ELSE <<>>) \o TrigramIterator_next(content, p2)

extract_trigrams(content) == TrigramIterator_next(content, 0)

extract_query_trigrams(query) == extract_trigrams(query)

\* ------------------------------------------------------------------------
\* Paths.  A path is the sequence of its components; a component is a byte
\* string, the component ".." being Component::ParentDir and every other
\* one Component::Normal.  PathBuf equality is equality of components.
\* ------------------------------------------------------------------------
ParentDir == <<46, 46>>

\* Path::parent: None for the empty path, else the path without its last
\* component
path_parent(path) ==
    IF Len(path) = 0 THEN None ELSE Some(SubSeq(path, 1, Len(path) - 1))

\* Path::file_name: None when the path is empty or terminates in ".."
path_file_name(path) ==
    IF Len(path) = 0 \/ path[Len(path)] = ParentDir THEN None
    ELSE Some(path[Len(path)])

\* OsStr::to_string_lossy: bytes that are not valid UTF-8 (here: bytes >= 128
\* that arrive alone) become U+FFFD, encoded EF BF BD
RECURSIVE to_string_lossy(_)
to_string_lossy(name) ==
    IF Len(name) = 0 THEN <<>>
    ELSE (IF name[1] >= 128 THEN <<239, 191, 189>> ELSE <<name[1]>>)
         \o to_string_lossy(Tail(name))

\* PathBuf::join with a file name: joining "" adds no component
path_join(dir, filename) ==
    IF Len(filename) = 0 THEN dir ELSE Append(dir, filename)

\* the path as a string: components separated by '/', lossily decoded
RECURSIVE path_to_string_lossy(_)
path_to_string_lossy(path) ==
    IF Len(path) = 0 THEN <<>>
    ELSE IF Len(path) = 1 THEN to_string_lossy(path[1])
    ELSE to_string_lossy(path[1]) \o <<47>> \o path_to_string_lossy(Tail(path))

\* ------------------------------------------------------------------------
\* PathIndex (index.rs)
\* ------------------------------------------------------------------------
\* PathIndex::new: no directories, no files, empty lookup
PathIndex_new == [directories |-> <<>>, files |-> <<>>, dir_lookup |-> <<>>]

\* faulty variant: the id is the length of `files` after the push
register_file_id_after_push(index, path) ==
    LET parent   == path_parent(path)
        dir      == IF parent = None THEN <<>> ELSE parent[1]
        fname    == path_file_name(path)
        filename == IF fname = None THEN <<>> ELSE to_string_lossy(fname[1])
        known    == dir \in DOMAIN index.dir_lookup
        dir_id   == IF known THEN index.dir_lookup[dir]
                    ELSE Len(index.directories)
        file_id  == Len(index.files) + 1
    IN  [index |->
            [directories |-> IF known THEN index.directories
                             ELSE Append(index.directories, dir),
             files       |-> Append(index.files, <<dir_id, filename>>),
             dir_lookup  |-> IF known THEN index.dir_lookup
                             ELSE [d \in DOMAIN index.dir_lookup \cup {dir} |->
                                     IF d = dir THEN dir_id
                                     ELSE index.dir_lookup[d]]],
         file_id |-> file_id]

\* faulty variant: the directory is pushed without consulting dir_lookup
register_file_no_lookup(index, path) ==
    LET parent   == path_parent(path)
        dir      == IF parent = None THEN <<>> ELSE parent[1]
        fname    == path_file_name(path)
        filename == IF fname = None THEN <<>> ELSE to_string_lossy(fname[1])
        dir_id   == Len(index.directories)
    IN  [index |->
            [directories |-> Append(index.directories, dir),
             files       |-> Append(index.files, <<dir_id, filename>>),
             dir_lookup  |-> [d \in DOMAIN index.dir_lookup \cup {dir} |-> dir_id]],
         file_id |-> Len(index.files)]

\* PathIndex::register_file: the index after the call and the returned id.
\* dir_lookup is a map, modelled as a function from directory to dir id.
register_file(index, path) ==
    LET parent   == path_parent(path)
        dir      == IF parent = None THEN <<>> ELSE parent[1]
        fname    == path_file_name(path)
        filename == IF fname = None THEN <<>> ELSE to_string_lossy(fname[1])
        known    == dir \in DOMAIN index.dir_lookup
        dir_id   == IF known THEN index.dir_lookup[dir]
                    ELSE Len(index.directories)
        file_id  == Len(index.files)
    IN  [index |->
            [directories |-> IF known THEN index.directories
                             ELSE Append(index.directories, dir),
             files       |-> Append(index.files, <<dir_id, filename>>),
             dir_lookup  |-> IF known THEN index.dir_lookup
                             ELSE [d \in DOMAIN index.dir_lookup \cup {dir} |->
                                     IF d = dir THEN dir_id
                                     ELSE index.dir_lookup[d]]],
         file_id |-> file_id]

\* PathIndex::get_file_path: None when the id or its dir id is out of range
get_file_path(index, file_id) ==
    IF file_id >= Len(index.files) THEN None
    ELSE LET entry == index.files[file_id + 1] IN
         IF entry[1] >= Len(index.directories) THEN None
         ELSE Some(path_join(index.directories[entry[1] + 1], entry[2]))

file_count(index) == Len(index.files)

directory_count(index) == Len(index.directories)

\* Path::extension: the part of the file name after its last '.', None when
\* there is no file name, no '.', or the only '.' is the first byte
RECURSIVE last_dot(_, _)
last_dot(name, i) ==
    IF i = 0 THEN 0 ELSE IF name[i] = 46 THEN i ELSE last_dot(name, i - 1)

path_extension(path) ==
    LET fname == path_file_name(path) IN
    IF fname = None THEN None
    ELSE LET name == fname[1]
             dot  == last_dot(name, Len(name))
         IN  IF dot <= 1 THEN None
             ELSE Some(SubSeq(name, dot + 1, Len(name)))

\* ------------------------------------------------------------------------
\* Posting maps (ExactTokenIndex::token_map, TrigramIndex::trigram_map):
\* a map from key to bitmap, a bitmap being a set of file ids
\* ------------------------------------------------------------------------
EmptyMap == <<>>

\* faulty variant: the bitmap of the key is replaced instead of extended
add_token_overwrite(map, key, file_id) ==
    [k \in DOMAIN map \cup {key} |-> IF k = key THEN {file_id} ELSE map[k]]

\* map.entry(key).or_insert_with(RoaringBitmap::new).insert(file_id)
add_token(map, key, file_id) ==
    [k \in DOMAIN map \cup {key} |->
        IF k = key
        THEN (IF key \in DOMAIN map THEN map[key] ELSE {}) \cup {file_id}
        ELSE map[k]]

\* get_bitmap: Some(bitmap) when the key has an entry
get_bitmap(map, key) ==
    IF key \in DOMAIN map THEN Some(map[key]) ELSE None

RECURSIVE add_all(_, _, _)
add_all(map, keys, file_id) ==
    IF keys = {} THEN map
    ELSE LET k == CHOOSE x \in keys : TRUE
         IN  add_all(add_token(map, k, file_id), keys \ {k}, file_id)

\* ------------------------------------------------------------------------
\* File-level extraction.  A file on disk is [content, readable]; an
\* unreadable file makes File::open / Mmap::map fail.  Ok(v) is Some(v),
\* Err is None.  The result Vec comes from a hash set: a set of keys.
\* ------------------------------------------------------------------------
\* faulty variant: no file is taken for binary
is_binary_never(content) == FALSE

\* is_binary: a NUL byte among the first BINARY_CHECK_LEN bytes
is_binary(content) ==
    \E i \in 1..Min(BINARY_CHECK_LEN, Len(content)) : content[i] = 0

extract_exact_tokens_from_file(file) ==
    IF ~file.readable THEN None
    ELSE IF Len(file.content) = 0 THEN Some({})
    ELSE IF is_binary(file.content) THEN Some({})
    ELSE Some(Range(tokenize_exact(file.content)))

extract_trigrams_from_file(file) ==
    IF ~file.readable THEN None
    ELSE IF Len(file.content) = 0 THEN Some({})
    ELSE IF is_binary(file.content) THEN Some({})
    ELSE Some(Range(extract_trigrams(file.content)))

extract_tokens_from_file(file) ==
    IF ~file.readable THEN None
    ELSE IF Len(file.content) = 0 THEN Some({})
    ELSE IF is_binary(file.content) THEN Some({})
    ELSE Some(Range(tokenize(file.content)))

\* the lowercased identifier tokens of a file, for the exact_lower postings
extract_exact_lower_tokens_from_file(file) ==
    IF ~file.readable THEN None
    ELSE IF Len(file.content) = 0 THEN Some({})
    ELSE IF is_binary(file.content) THEN Some({})
    ELSE Some(Range(tokenize_query_exact_lower(file.content)))

unwrap_or_default(opt) == IF opt = None THEN {} ELSE opt[1]

\* process_single_file: the result record of one worker task
process_single_file(file_id, file) ==
    [file_id      |-> file_id,
     exact_tokens |-> unwrap_or_default(extract_exact_tokens_from_file(file)),
     trigrams     |-> unwrap_or_default(extract_trigrams_from_file(file))]

\* ------------------------------------------------------------------------
\* Query planner (query.rs)
\* ------------------------------------------------------------------------
\* sorted.sort_by_key(|b| b.len()): stable insertion of b into a sequence
\* already sorted by cardinality
RECURSIVE insert_by_len(_, _)
insert_by_len(sorted, b) ==
    IF Len(sorted) = 0 THEN <<b>>
    ELSE IF Cardinality(b) < Cardinality(sorted[1])
         THEN <<b>> \o sorted
         ELSE <<sorted[1]>> \o insert_by_len(Tail(sorted), b)

RECURSIVE sort_by_len(_)
sort_by_len(bitmaps) ==
    IF Len(bitmaps) = 0 THEN <<>>
    ELSE insert_by_len(sort_by_len(SubSeq(bitmaps, 1, Len(bitmaps) - 1)),
                       bitmaps[Len(bitmaps)])

\* faulty variant: the early exit returns the result of the step before
RECURSIVE intersect_loop_exit_keeps_result(_, _, _)
intersect_loop_exit_keeps_result(result, sorted, i) ==
    IF i > Len(sorted) THEN result
    ELSE LET r == result \cap sorted[i]
         IN  IF r = {} THEN result
             ELSE intersect_loop_exit_keeps_result(r, sorted, i + 1)

\* the loop `for bitmap in &sorted[1..]` with its early exit
RECURSIVE intersect_loop(_, _, _)
intersect_loop(result, sorted, i) ==
    IF i > Len(sorted) THEN result
    ELSE LET r == result \cap sorted[i]
         IN  IF r = {} THEN r ELSE intersect_loop(r, sorted, i + 1)

intersect_bitmaps(bitmaps) ==
    IF Len(bitmaps) = 0 THEN {}
    ELSE LET sorted == sort_by_len(bitmaps)
         IN  intersect_loop(sorted[1], sorted, 2)

RECURSIVE union_loop(_, _, _)
union_loop(result, bitmaps, i) ==
    IF i > Len(bitmaps) THEN result
    ELSE union_loop(result \cup bitmaps[i], bitmaps, i + 1)

\* faulty variant: the fold skips the first bitmap
union_bitmaps_skip_first(bitmaps) == union_loop({}, bitmaps, 2)

union_bitmaps(bitmaps) == union_loop({}, bitmaps, 1)

\* faulty variant: a key that occurs again later in the query is looked up once
RECURSIVE collect_bitmaps_unique(_, _)
collect_bitmaps_unique(map, keys) ==
    IF Len(keys) = 0 THEN <<>>
    ELSE LET b == get_bitmap(map, keys[1])
         IN  (IF b = None \/ keys[1] \in Range(Tail(keys)) THEN <<>> ELSE <<b[1]>>)
             \o collect_bitmaps_unique(map, Tail(keys))

\* keys.iter().filter_map(|k| index.get_bitmap(*k)).collect()
RECURSIVE collect_bitmaps(_, _)
collect_bitmaps(map, keys) ==
    IF Len(keys) = 0 THEN <<>>
    ELSE LET b == get_bitmap(map, keys[1])
         IN  (IF b = None THEN <<>> ELSE <<b[1]>>)
             \o collect_bitmaps(map, Tail(keys))

\* Glob patterns of the model: literal bytes, '*' (42), '?' (63) and '['
\* (91).  No modelled pattern has a ']', so a '[' is an unclosed class and
\* GlobBuilder::build fails on it.
glob_build(pattern) ==
    IF 91 \in Range(pattern) THEN None ELSE Some(pattern)

\* Glob::is_match with case_insensitive(true) on a file name
RECURSIVE glob_is_match(_, _)
glob_is_match(pattern, name) ==
    IF Len(pattern) = 0 THEN Len(name) = 0
    ELSE IF pattern[1] = 42
         THEN \/ glob_is_match(Tail(pattern), name)
              \/ (Len(name) > 0 /\ glob_is_match(pattern, Tail(name)))
    ELSE IF pattern[1] = 63
         THEN Len(name) > 0 /\ glob_is_match(Tail(pattern), Tail(name))
    ELSE /\ Len(name) > 0
         /\ to_lowercase(pattern[1]) = to_lowercase(name[1])
         /\ glob_is_match(Tail(pattern), Tail(name))

\* the GlobSet built from the patterns that compile (the others are dropped)
RECURSIVE glob_set(_)
glob_set(patterns) ==
    IF Len(patterns) = 0 THEN <<>>
    ELSE LET g == glob_build(patterns[1])
         IN  (IF g = None THEN <<>> ELSE <<g[1]>>) \o glob_set(Tail(patterns))

glob_set_is_match(matcher, name) ==
    \E i \in 1..Len(matcher) : glob_is_match(matcher[i], name)

\* QueryOptions::default(): no limit, OR mode, no filters
QueryOptions_default ==
    [limit |-> None, match_all |-> FALSE, path_contains |-> None,
     glob_patterns |-> None, exclude |-> None]

\* faulty variant: the path_contains needle is compared as given, not lowercased
resolve_one_needle_as_given(path_index, id, options) ==
    LET p == get_file_path(path_index, id) IN
    IF p = None THEN None
    ELSE LET path       == p[1]
             path_lower == str_to_lowercase(path_to_string_lossy(path))
             fname      == path_file_name(path)
         IN  IF /\ options.path_contains # None
                /\ ~Contains(path_lower, options.path_contains[1])
             THEN None
             ELSE IF /\ options.glob_patterns # None
                     /\ \/ fname = None
                        \/ ~glob_set_is_match(glob_set(options.glob_patterns[1]),
                                              fname[1])
             THEN None
             ELSE IF /\ options.exclude # None
                     /\ Contains(path_lower, str_to_lowercase(options.exclude[1]))
             THEN None
             ELSE Some(path)

\* the filter_map closure of resolve_file_ids: Some(path) when id resolves
\* and passes the filters
resolve_one(path_index, id, options) ==
    LET p == get_file_path(path_index, id) IN
    IF p = None THEN None
    ELSE LET path       == p[1]
             path_lower == str_to_lowercase(path_to_string_lossy(path))
             fname      == path_file_name(path)
         IN  IF /\ options.path_contains # None
                /\ ~Contains(path_lower, str_to_lowercase(options.path_contains[1]))
             THEN None
             ELSE IF /\ options.glob_patterns # None
                     /\ \/ fname = None
                        \/ ~glob_set_is_match(glob_set(options.glob_patterns[1]),
                                              fname[1])
             THEN None
             ELSE IF /\ options.exclude # None
                     /\ Contains(path_lower, str_to_lowercase(options.exclude[1]))
             THEN None
             ELSE Some(path)

\* faulty variant: the limit counts the ids visited, not the paths accepted
RECURSIVE resolve_iter_limit_scanned(_, _, _, _)
resolve_iter_limit_scanned(path_index, ids, options, taken) ==
    IF Len(ids) = 0 THEN <<>>
    ELSE IF options.limit # None /\ taken >= options.limit[1] THEN <<>>
    ELSE LET r == resolve_one(path_index, ids[1], options)
         IN  IF r = None
             THEN resolve_iter_limit_scanned(path_index, Tail(ids), options, taken + 1)
             ELSE <<r[1]>> \o resolve_iter_limit_scanned(path_index, Tail(ids), options, taken + 1)

\* iter.take(limit).collect(): ids are visited in ascending order and the
\* visit stops once `limit` paths were accepted
RECURSIVE resolve_iter(_, _, _, _)
resolve_iter(path_index, ids, options, taken) ==
    IF Len(ids) = 0 THEN <<>>
    ELSE IF options.limit # None /\ taken >= options.limit[1] THEN <<>>
    ELSE LET r == resolve_one(path_index, ids[1], options)
         IN  IF r = None
             THEN resolve_iter(path_index, Tail(ids), options, taken)
             ELSE <<r[1]>> \o resolve_iter(path_index, Tail(ids), options, taken + 1)

resolve_file_ids(path_index, bitmap, options) ==
    resolve_iter(path_index, SortedSeq(bitmap), options, 0)

QueryResult(files, qtc, mtc) ==
    [files |-> files, query_token_count |-> qtc, matched_token_count |-> mtc]

\* the body shared by query_exact, query_exact_lower and query_fuzzy after
\* the query was tokenized into `keys`
query_keys(path_index, map, keys, options) ==
    LET query_token_count == Len(keys) IN
    IF Len(keys) = 0 THEN QueryResult(<<>>, 0, 0)
    ELSE LET bitmaps == collect_bitmaps(map, keys)
             matched_token_count == Len(bitmaps)
         IN  IF Len(bitmaps) = 0 THEN QueryResult(<<>>, query_token_count, 0)
             ELSE LET result == IF options.match_all
                                THEN intersect_bitmaps(bitmaps)
                                ELSE union_bitmaps(bitmaps)
                  IN  QueryResult(resolve_file_ids(path_index, result, options),
                                  query_token_count, matched_token_count)

query_exact(path_index, exact_map, query_str, options) ==
    query_keys(path_index, exact_map, tokenize_query_exact(query_str), options)

query_exact_lower(path_index, exact_lower_map, query_str, options) ==
    query_keys(path_index, exact_lower_map,
               tokenize_query_exact_lower(query_str), options)

query_fuzzy(path_index, trigram_map, query_str, options) ==
    query_keys(path_index, trigram_map, extract_query_trigrams(query_str), options)

\* query_with_options on the legacy TokenIndex: the limit is applied to the
\* ids (take) before they are resolved (filter_map), and no filter applies
RECURSIVE legacy_resolve(_, _)
legacy_resolve(index, ids) ==
    IF Len(ids) = 0 THEN <<>>
    ELSE LET p == get_file_path(index, ids[1])
         IN  (IF p = None THEN <<>> ELSE <<p[1]>>)
             \o legacy_resolve(index, Tail(ids))

query_with_options(index, token_map, query_str, options) ==
    LET token_hashes == tokenize_query(query_str)
        query_token_count == Len(token_hashes)
    IN
    IF Len(token_hashes) = 0 THEN QueryResult(<<>>, 0, 0)
    ELSE LET bitmaps == collect_bitmaps(token_map, token_hashes)
             matched_token_count == Len(bitmaps)
         IN  IF Len(bitmaps) = 0 THEN QueryResult(<<>>, query_token_count, 0)
             ELSE LET result == IF options.match_all
                                THEN intersect_bitmaps(bitmaps)
                                ELSE union_bitmaps(bitmaps)
                      ids    == SortedSeq(result)
                      taken  == IF options.limit = None THEN ids
                                ELSE SubSeq(ids, 1, Min(options.limit[1], Len(ids)))
                  IN  QueryResult(legacy_resolve(index, taken),
                                  query_token_count, matched_token_count)

\* ------------------------------------------------------------------------
\* Scan configuration (ScanConfig::default) and the walked tree
\* ------------------------------------------------------------------------
\* ".git", "node_modules", "target", ".cache", "__pycache__"
DefaultExcludePatterns ==
    {<<46, 103, 105, 116>>,
     <<110, 111, 100, 101, 95, 109, 111, 100, 117, 108, 101, 115>>,
     <<116, 97, 114, 103, 101, 116>>,
     <<46, 99, 97, 99, 104, 101>>,
     <<95, 95, 112, 121, 99, 97, 99, 104, 101, 95, 95>>}

ScanConfig_default ==
    [extensions |-> {}, exclude_patterns |-> DefaultExcludePatterns,
     max_file_size |-> 10 * 1024 * 1024, batch_size |-> 1000]

\* the path of the k-th entry the directory walk yields:
\* s/a.r, s/B.h, t/a.r, t/c, u/d.r
WalkPaths ==
    << <<<<115>>, <<97, 46, 114>>>>,
       <<<<115>>, <<66, 46, 104>>>>,
       <<<<116>>, <<97, 46, 114>>>>,
       <<<<116>>, <<99>>>>,
       <<<<117>>, <<100, 46, 114>>>> >>

\* contents of the files of a tree:
\*   "" | "ab" | "baba" | "ab_a" | "ABA" | "ab\x01aba" (two tokens around an
\*   unknown byte) | "aba\0" (binary)
FileContents ==
    {<<>>,
     <<97, 98>>,
     <<98, 97, 98, 97>>,
     <<97, 98, 95, 97>>,
     <<65, 66, 65>>,
     <<97, 98, 1, 97, 98, 97>>,
     <<97, 98, 97, 0>>}

\* what the walk can yield at position k: a regular file (readable or not),
\* a directory, or a traversal error
FileEntries(k) ==
    {[kind |-> "file", path |-> WalkPaths[k], content |-> c, readable |-> TRUE]
        : c \in FileContents}
    \cup {[kind |-> "file", path |-> WalkPaths[k], content |-> <<97, 98, 97>>,
           readable |-> FALSE]}

DirEntry(k) ==
    [kind |-> "dir", path |-> WalkPaths[k], content |-> <<>>, readable |-> FALSE]

ErrorEntry(k) ==
    [kind |-> "error", path |-> WalkPaths[k], content |-> <<>>, readable |-> FALSE]

RECURSIVE TreesOfLen(_)
TreesOfLen(n) ==
    IF n = 0 THEN {<<>>}
    ELSE {Append(t, e) : t \in TreesOfLen(n - 1),
                         e \in FileEntries(n) \cup {DirEntry(n)}}

\* a walk of at most MaxFiles entries; the traversal error, after which
\* nothing is read, comes last
Trees ==
    UNION {TreesOfLen(n) : n \in 0..MaxFiles}
    \cup UNION {{Append(t, ErrorEntry(n + 1)) : t \in TreesOfLen(n)}
                    : n \in 0..(MaxFiles - 1)}

\* the file system: the file behind a path of the tree
file_at(t, path) ==
    LET k == CHOOSE i \in 1..Len(t) : t[i].path = path
    IN  [content |-> t[k].content, readable |-> t[k].readable]

\* the query strings:
\*   ""  "a"  "ab"  "aba"  "ABA"  "ab_a"  "bab"
\*   "ab ab"  "ab bab"  "aba ab"  "a ab"  "ababa"
Queries ==
    {<<>>,
     <<97>>,
     <<97, 98>>,
     <<97, 98, 97>>,
     <<65, 66, 65>>,
     <<97, 98, 95, 97>>,
     <<98, 97, 98>>,
     <<97, 98, 32, 97, 98>>,
     <<97, 98, 32, 98, 97, 98>>,
     <<97, 98, 97, 32, 97, 98>>,
     <<97, 32, 97, 98>>,
     <<97, 98, 97, 98, 97>>}

QueryModes == {"exact", "exact_lower", "fuzzy"}

\* options without filters and without limit, AND or OR
PlainOptions ==
    {[QueryOptions_default EXCEPT !.match_all = m] : m \in BOOLEAN}

\* paths handed to register_file on a bare registry:
\*   "a"  "d/a"  "d/b"  "e/a"  "d/e/a"  "d/\xFF" (a name that is not UTF-8)
\*   "d/.." (a path without file name)  "" (the empty path)
RegPaths ==
    {<<<<97>>>>,
     <<<<100>>, <<97>>>>,
     <<<<100>>, <<98>>>>,
     <<<<101>>, <<97>>>>,
     <<<<100>>, <<101>>, <<97>>>>,
     <<<<100>>, <<255>>>>,
     <<<<100>>, ParentDir>>,
     <<>>}

\* ------------------------------------------------------------------------
\* State
\* ------------------------------------------------------------------------
VARIABLES
    path_index,      \* the PathIndex: directories, files, dir_lookup
    calls,           \* history: <<path, returned id>> of each register_file
    config,          \* the ScanConfig of the build
    tree,            \* the entries the directory walk yields, in order
    walker,          \* walker thread: [pos, status]
    path_chan,       \* walker -> coordinator channel (sync_channel)
    tasks,           \* spawned worker tasks that did not run yet
    result_chan,     \* worker -> merger channel (unbounded)
    exact_map,       \* exact postings being merged
    exact_lower_map, \* lowercased exact postings being merged
    trigram_map,     \* trigram postings being merged
    pc,              \* position of the thread running the build
    legacy,          \* legacy build: [files, chunk_maps, metadata]
    token_map,       \* token_map of the legacy TokenIndex
    qin,             \* the last query: [mode, query, options]
    qres,            \* its QueryResult
    merged_ids,          \* history: file ids of the results merge_results took
    runs,            \* the indexes each build run returned, in run order
    disk,            \* the four index files at the base path
    origin,          \* history: the save_all call that last wrote each file
    out              \* outcome of the last persistence operation

vars == <<path_index, calls, config, tree, walker, path_chan, tasks,
          result_chan, exact_map, exact_lower_map, trigram_map, pc, legacy,
          token_map, qin, qres, merged_ids, runs, disk, origin, out>>

registry_vars == <<path_index, calls>>

build_vars == <<config, tree, walker, path_chan, tasks, result_chan,
                exact_map, exact_lower_map, trigram_map, pc, merged_ids>>

store_vars == <<runs, disk, origin, out>>

legacy_vars == <<legacy, token_map>>

query_vars == <<qin, qres>>

\* TokenIndex::new: the metadata of an empty legacy index
TokenIndex_new_metadata == [file_count |-> 0, token_count |-> 0]

NoLegacy ==
    [files |-> <<>>, chunk_maps |-> <<>>, metadata |-> TokenIndex_new_metadata]

NoQuery == [mode |-> "none", query |-> <<>>, options |-> QueryOptions_default]

NoResult == QueryResult(<<>>, 0, 0)

\* the files save_all writes next to a base path: .paths .exact .exacti .tri
FileKinds == {"paths", "exact", "exacti", "tri"}

\* no file exists at the base path
EmptyDisk == [k \in FileKinds |-> None]

NoOrigin == [k \in FileKinds |-> 0]

NoOutcome == [op |-> "none", result |-> <<>>]

\* no build ran, nothing was saved
StoreIdle ==
    /\ runs = <<>>
    /\ disk = EmptyDisk
    /\ origin = NoOrigin
    /\ out = NoOutcome

\* ------------------------------------------------------------------------
\* Bare path registry: register_file called on a fresh PathIndex
\* ------------------------------------------------------------------------
InitPaths ==
    /\ path_index = PathIndex_new
    /\ calls = <<>>
    /\ config = ScanConfig_default
    /\ tree = <<>>
    /\ walker = [pos |-> 0, status |-> "idle"]
    /\ path_chan = <<>>
    /\ tasks = {}
    /\ result_chan = <<>>
    /\ exact_map = EmptyMap
    /\ exact_lower_map = EmptyMap
    /\ trigram_map = EmptyMap
    /\ pc = "idle"
    /\ legacy = NoLegacy
    /\ token_map = EmptyMap
    /\ qin = NoQuery
    /\ qres = NoResult
    /\ merged_ids = <<>>
    /\ StoreIdle

RegisterFile(path) ==
    /\ Len(calls) < MaxRegistered
    /\ LET r == register_file(path_index, path)
       IN  /\ path_index' = r.index
           /\ calls' = Append(calls, [path |-> path, file_id |-> r.file_id])
    /\ UNCHANGED <<build_vars, legacy_vars, query_vars,
                   store_vars>>

NextPaths == \E path \in RegPaths : RegisterFile(path)

SpecPaths == InitPaths /\ [][NextPaths]_vars

\* C1: after any sequence of register_file calls, every registered path p
\* with returned id i satisfies get_file_path(i) = p, get_file_path(j) is
\* absent for every j >= file_count(), and (the calls history being kept)
\* no later registration changes what an earlier id resolves to.
C1_RegisteredPathRoundTrips ==
    /\ \A k \in 1..Len(calls) :
          get_file_path(path_index, calls[k].file_id) = Some(calls[k].path)
    /\ \A j \in file_count(path_index)..(file_count(path_index) + 2) :
          get_file_path(path_index, j) = None

\* ------------------------------------------------------------------------
\* scan_and_build_indexes: walker thread, coordinator loop inside
\* rayon::scope, worker tasks, join of the walker, merge_results
\* ------------------------------------------------------------------------
\* batch sizes of the legacy build: ScanConfig::default's and small ones
LegacyBatchSizes == {1, 2, ScanConfig_default.batch_size}

\* either scan_and_build_indexes or scan_and_index is about to run on a tree
Init ==
    /\ path_index = PathIndex_new
    /\ calls = <<>>
    /\ tree \in Trees
    /\ \/ /\ pc = "dispatch"
          /\ config = ScanConfig_default
          /\ walker = [pos |-> 0, status |-> "running"]
       \/ /\ pc = "l_collect"
          /\ config \in {[ScanConfig_default EXCEPT !.batch_size = b]
                            : b \in LegacyBatchSizes}
          /\ walker = [pos |-> 0, status |-> "idle"]
    /\ path_chan = <<>>
    /\ tasks = {}
    /\ result_chan = <<>>
    /\ exact_map = EmptyMap
    /\ exact_lower_map = EmptyMap
    /\ trigram_map = EmptyMap
    /\ legacy = NoLegacy
    /\ token_map = EmptyMap
    /\ qin = NoQuery
    /\ qres = NoResult
    /\ merged_ids = <<>>
    /\ StoreIdle

\* process_read_dir: an entry that was read without error survives when no
\* component of its path is an exclude pattern (an excluded directory is
\* never descended into)
survives_read_dir(entry, exclude_patterns) ==
    \A i \in 1..Len(entry.path) : entry.path[i] \notin exclude_patterns

\* the extension and size checks of walk_and_send
passes_file_filter(entry, cfg) ==
    /\ \/ cfg.extensions = {}
       \/ LET ext == path_extension(entry.path)
          IN  ext # None /\ ext[1] \in cfg.extensions
    /\ Len(entry.content) <= cfg.max_file_size

\* faulty variant: send never waits for room in the channel
WalkerStep_never_blocks ==
    /\ walker.status = "running"
    /\ walker.pos < Len(tree)
    /\ LET entry == tree[walker.pos + 1] IN
       IF entry.kind = "error"
       THEN \* entry.map_err(...)? returns the WalkDir error, tx is dropped
            /\ walker' = [walker EXCEPT !.status = "err"]
            /\ UNCHANGED path_chan
       ELSE IF \/ ~survives_read_dir(entry, config.exclude_patterns)
               \/ entry.kind = "dir"
               \/ ~passes_file_filter(entry, config)
       THEN /\ walker' = [walker EXCEPT !.pos = @ + 1]
            /\ UNCHANGED path_chan
       ELSE /\ path_chan' = Append(path_chan, entry.path)
            /\ walker' = [walker EXCEPT !.pos = @ + 1]
    /\ UNCHANGED <<path_index, calls, config, tree, tasks, result_chan,
                   exact_map, exact_lower_map, trigram_map, pc, legacy_vars, query_vars, merged_ids,
                   store_vars>>

\* walk_and_send, one iteration of its for loop
WalkerStep ==
    /\ walker.status = "running"
    /\ walker.pos < Len(tree)
    /\ LET entry == tree[walker.pos + 1] IN
       IF entry.kind = "error"
       THEN \* entry.map_err(...)? returns the WalkDir error, tx is dropped
            /\ walker' = [walker EXCEPT !.status = "err"]
            /\ UNCHANGED path_chan
       ELSE IF \/ ~survives_read_dir(entry, config.exclude_patterns)
               \/ entry.kind = "dir"
               \/ ~passes_file_filter(entry, config)
       THEN /\ walker' = [walker EXCEPT !.pos = @ + 1]
            /\ UNCHANGED path_chan
       ELSE \* tx.send blocks while the channel is full
            /\ Len(path_chan) < PATH_CHANNEL_CAPACITY
            /\ path_chan' = Append(path_chan, entry.path)
            /\ walker' = [walker EXCEPT !.pos = @ + 1]
    /\ UNCHANGED <<path_index, calls, config, tree, tasks, result_chan,
                   exact_map, exact_lower_map, trigram_map, pc, legacy_vars, query_vars, merged_ids,
                   store_vars>>

\* walk_and_send returns Ok(()) after the last entry; tx is dropped
WalkerFinish ==
    /\ walker.status = "running"
    /\ walker.pos = Len(tree)
    /\ walker' = [walker EXCEPT !.status = "ok"]
    /\ UNCHANGED <<path_index, calls, config, tree, path_chan, tasks,
                   result_chan, exact_map, exact_lower_map, trigram_map, pc,
                   legacy_vars, query_vars, merged_ids,
                   store_vars>>

\* the walker thread panics (inside the directory walk): the thread ends,
\* unwinding drops tx
WalkerPanic ==
    /\ walker.status = "running"
    /\ walker' = [walker EXCEPT !.status = "panicked"]
    /\ UNCHANGED <<path_index, calls, config, tree, path_chan, tasks,
                   result_chan, exact_map, exact_lower_map, trigram_map, pc,
                   legacy_vars, query_vars, merged_ids, store_vars>>

\* one iteration of `for path in path_rx`: register, then spawn the task
Dispatch ==
    /\ pc = "dispatch"
    /\ Len(path_chan) > 0
    /\ LET path == Head(path_chan)
           r    == register_file(path_index, path)
       IN  /\ path_index' = r.index
           /\ calls' = Append(calls, [path |-> path, file_id |-> r.file_id])
           /\ tasks' = tasks \cup {[file_id |-> r.file_id, path |-> path]}
    /\ path_chan' = Tail(path_chan)
    /\ UNCHANGED <<config, tree, walker, result_chan, exact_map,
                   exact_lower_map, trigram_map, pc, legacy_vars, query_vars, merged_ids,
                   store_vars>>

\* faulty variant: the loop ends only after the walker returned Ok
DispatchEnd_waits_for_ok ==
    /\ pc = "dispatch"
    /\ Len(path_chan) = 0
    /\ walker.status = "ok"
    /\ pc' = "scope"
    /\ UNCHANGED <<path_index, calls, config, tree, walker, path_chan, tasks,
                   result_chan, exact_map, exact_lower_map, trigram_map,
                   legacy_vars, query_vars, merged_ids, store_vars>>

\* the for loop ends when the channel is empty and its sender was dropped
DispatchEnd ==
    /\ pc = "dispatch"
    /\ Len(path_chan) = 0
    /\ walker.status # "running"
    /\ pc' = "scope"
    /\ UNCHANGED <<path_index, calls, config, tree, walker, path_chan, tasks,
                   result_chan, exact_map, exact_lower_map, trigram_map,
                   legacy_vars, query_vars, merged_ids,
                   store_vars>>

\* a spawned task runs: process_single_file, then tx.send(result)
Worker(t) ==
    /\ t \in tasks
    /\ tasks' = tasks \ {t}
    /\ result_chan' =
          Append(result_chan, process_single_file(t.file_id, file_at(tree, t.path)))
    /\ UNCHANGED <<path_index, calls, config, tree, walker, path_chan,
                   exact_map, exact_lower_map, trigram_map, pc, legacy_vars, query_vars, merged_ids,
                   store_vars>>

\* rayon::scope returns once every spawned task has run; drop(result_tx)
ScopeExit ==
    /\ pc = "scope"
    /\ tasks = {}
    /\ pc' = "join"
    /\ UNCHANGED <<path_index, calls, config, tree, walker, path_chan, tasks,
                   result_chan, exact_map, exact_lower_map, trigram_map,
                   legacy_vars, query_vars, merged_ids,
                   store_vars>>

\* faulty variant: a walker that panicked is taken for one that returned Ok
Join_ignores_panic ==
    /\ pc = "join"
    /\ walker.status # "running"
    /\ pc' = IF walker.status = "err" THEN "failed" ELSE "merge"
    /\ UNCHANGED <<path_index, calls, config, tree, walker, path_chan, tasks,
                   result_chan, exact_map, exact_lower_map, trigram_map,
                   legacy_vars, query_vars, merged_ids, store_vars>>

\* walker_handle.join().map_err(..)??: a panic of the walker and the
\* walker's own error are both returned as WalkDir, else merge starts
Join ==
    /\ pc = "join"
    /\ walker.status # "running"
    /\ pc' = IF walker.status \in {"err", "panicked"} THEN "failed" ELSE "merge"
    /\ UNCHANGED <<path_index, calls, config, tree, walker, path_chan, tasks,
                   result_chan, exact_map, exact_lower_map, trigram_map,
                   legacy_vars, query_vars, merged_ids,
                   store_vars>>

\* one iteration of `for result in rx` in merge_results.  The lowercased
\* postings are merged from the lowercased tokens of the same file.
MergeStep ==
    /\ pc = "merge"
    /\ Len(result_chan) > 0
    /\ LET result == Head(result_chan)
           file   == file_at(tree, calls[result.file_id + 1].path)
       IN  /\ exact_map' = add_all(exact_map, result.exact_tokens, result.file_id)
           /\ trigram_map' = add_all(trigram_map, result.trigrams, result.file_id)
           /\ exact_lower_map' =
                 add_all(exact_lower_map,
                         unwrap_or_default(extract_exact_lower_tokens_from_file(file)),
                         result.file_id)
    /\ result_chan' = Tail(result_chan)
    /\ merged_ids' = Append(merged_ids, Head(result_chan).file_id)
    /\ UNCHANGED <<path_index, calls, config, tree, walker, path_chan, tasks,
                   pc, legacy_vars, query_vars, store_vars>>

\* the result channel is empty and every sender is gone: Ok((paths, exact,
\* trigram)) is returned
MergeEnd ==
    /\ pc = "merge"
    /\ Len(result_chan) = 0
    /\ pc' = "done"
    /\ UNCHANGED <<path_index, calls, config, tree, walker, path_chan, tasks,
                   result_chan, exact_map, exact_lower_map, trigram_map,
                   legacy_vars, query_vars, merged_ids,
                   store_vars>>

\* a query against the indexes the build returned (queries leave the
\* indexes unchanged, so one query per run shows them all)
Query(mode, query, options) ==
    /\ pc = "done"
    /\ qin = NoQuery
    /\ qin' = [mode |-> mode, query |-> query, options |-> options]
    /\ qres' = IF mode = "exact"
               THEN query_exact(path_index, exact_map, query, options)
               ELSE IF mode = "exact_lower"
               THEN query_exact_lower(path_index, exact_lower_map, query, options)
               ELSE query_fuzzy(path_index, trigram_map, query, options)
    /\ UNCHANGED <<registry_vars, build_vars, legacy_vars,
                   store_vars>>

\* ------------------------------------------------------------------------
\* Legacy build: scan_and_index = collect_files, then build_index_parallel
\* ------------------------------------------------------------------------
\* should_exclude: some Normal component of the path is an exclude pattern
should_exclude(path, patterns) ==
    \E i \in 1..Len(path) : path[i] # ParentDir /\ path[i] \in patterns

\* collect_files: Some(files) in walk order, None for a traversal error
RECURSIVE collect_files(_, _, _, _)
collect_files(t, cfg, i, files) ==
    IF i > Len(t) THEN Some(files)
    ELSE LET entry == t[i] IN
         IF entry.kind = "error" THEN None
         ELSE IF \/ should_exclude(entry.path, cfg.exclude_patterns)
                 \/ entry.kind # "file"
                 \/ ~passes_file_filter(entry, cfg)
         THEN collect_files(t, cfg, i + 1, files)
         ELSE collect_files(t, cfg, i + 1, Append(files, entry.path))

\* par_chunks(batch_size): number of chunks of n files
chunk_count(n, batch_size) == (n + batch_size - 1) \div batch_size

\* the closure of build_index_parallel for chunk chunk_idx: token -> ids,
\* the ids being base_id + i for the i-th file of the chunk
RECURSIVE chunk_local_map(_, _, _, _, _)
chunk_local_map(t, chunk, base_id, i, local_map) ==
    IF i >= Len(chunk) THEN local_map
    ELSE LET file_id == base_id + i
             tokens  == extract_tokens_from_file(file_at(t, chunk[i + 1]))
         IN  chunk_local_map(t, chunk, base_id, i + 1,
                 IF tokens = None THEN local_map
                 ELSE add_all(local_map, tokens[1], file_id))

chunk_of(files, chunk_idx, batch_size) ==
    SubSeq(files, chunk_idx * batch_size + 1,
           Min((chunk_idx + 1) * batch_size, Len(files)))

\* bitmap.insert(file_id) for every id of one local map entry
RECURSIVE insert_ids(_, _, _)
insert_ids(map, key, ids) ==
    IF ids = {} THEN map
    ELSE LET id == CHOOSE x \in ids : TRUE
         IN  insert_ids(add_token(map, key, id), key, ids \ {id})

RECURSIVE merge_local_map(_, _, _)
merge_local_map(merged, local_map, keys) ==
    IF keys = {} THEN merged
    ELSE LET k == CHOOSE x \in keys : TRUE
         IN  merge_local_map(insert_ids(merged, k, local_map[k]), local_map,
                             keys \ {k})

\* `for local_map in token_maps`, the chunks in their collected order
RECURSIVE merge_token_maps(_, _, _, _)
merge_token_maps(merged, chunk_maps, c, n) ==
    IF c >= n THEN merged
    ELSE merge_token_maps(
            merge_local_map(merged, chunk_maps[c], DOMAIN chunk_maps[c]),
            chunk_maps, c + 1, n)

\* TokenIndex::register_file: as PathIndex::register_file, and the metadata
\* file count follows the id
TokenIndex_register_file(index, path) ==
    LET r == register_file(index, path)
    IN  [index |-> r.index, file_id |-> r.file_id, file_count |-> r.file_id + 1]

\* `for path in files { index.register_file(path) }`: the index after the
\* loop and the <<path, returned id>> of each call
RECURSIVE register_all(_, _, _, _)
register_all(index, files, i, done) ==
    IF i > Len(files) THEN [index |-> index, calls |-> done]
    ELSE LET r == TokenIndex_register_file(index, files[i])
         IN  register_all(r.index, files, i + 1,
                          Append(done, [path |-> files[i], file_id |-> r.file_id]))

\* scan_and_index up to the start of the parallel phase
LegacyCollect ==
    /\ pc = "l_collect"
    /\ LET files == collect_files(tree, config, 1, <<>>) IN
       IF files = None
       THEN /\ pc' = "failed"
            /\ UNCHANGED legacy
       ELSE IF Len(files[1]) = 0
       THEN \* Ok(TokenIndex::new(root))
            /\ pc' = "l_done"
            /\ UNCHANGED legacy
       ELSE /\ pc' = "l_chunks"
            /\ legacy' = [legacy EXCEPT !.files = files[1]]
    /\ UNCHANGED <<registry_vars, config, tree, walker, path_chan, tasks,
                   result_chan, exact_map, exact_lower_map, trigram_map,
                   token_map, query_vars, merged_ids,
                   store_vars>>

\* faulty variant: every chunk counts its file ids from 0
LegacyChunk_ids_from_zero(chunk_idx) ==
    /\ pc = "l_chunks"
    /\ chunk_idx \in 0..(chunk_count(Len(legacy.files), config.batch_size) - 1)
    /\ chunk_idx \notin DOMAIN legacy.chunk_maps
    /\ LET chunk     == chunk_of(legacy.files, chunk_idx, config.batch_size)
           base_id   == 0
           local_map == chunk_local_map(tree, chunk, base_id, 0, EmptyMap)
       IN  legacy' = [legacy EXCEPT !.chunk_maps =
                        [c \in DOMAIN legacy.chunk_maps \cup {chunk_idx} |->
                            IF c = chunk_idx THEN local_map
                            ELSE legacy.chunk_maps[c]]]
    /\ UNCHANGED <<registry_vars, config, tree, walker, path_chan, tasks,
                   result_chan, exact_map, exact_lower_map, trigram_map, pc,
                   token_map, query_vars, merged_ids,
                   store_vars>>

\* one chunk of par_chunks runs on some pool thread
LegacyChunk(chunk_idx) ==
    /\ pc = "l_chunks"
    /\ chunk_idx \in 0..(chunk_count(Len(legacy.files), config.batch_size) - 1)
    /\ chunk_idx \notin DOMAIN legacy.chunk_maps
    /\ LET chunk     == chunk_of(legacy.files, chunk_idx, config.batch_size)
           base_id   == chunk_idx * config.batch_size
           local_map == chunk_local_map(tree, chunk, base_id, 0, EmptyMap)
       IN  legacy' = [legacy EXCEPT !.chunk_maps =
                        [c \in DOMAIN legacy.chunk_maps \cup {chunk_idx} |->
                            IF c = chunk_idx THEN local_map
                            ELSE legacy.chunk_maps[c]]]
    /\ UNCHANGED <<registry_vars, config, tree, walker, path_chan, tasks,
                   result_chan, exact_map, exact_lower_map, trigram_map, pc,
                   token_map, query_vars, merged_ids,
                   store_vars>>

\* collect() returned: merge the maps, register the files, finalize
LegacyMerge ==
    /\ pc = "l_chunks"
    /\ LET n == chunk_count(Len(legacy.files), config.batch_size) IN
       /\ DOMAIN legacy.chunk_maps = 0..(n - 1)
       /\ token_map' = merge_token_maps(EmptyMap, legacy.chunk_maps, 0, n)
       /\ LET r == register_all(path_index, legacy.files, 1, <<>>)
          IN  /\ path_index' = r.index
              /\ calls' = r.calls
       /\ legacy' = [legacy EXCEPT !.metadata =
                        [file_count  |-> Len(path_index'.files),
                         token_count |-> Cardinality(DOMAIN token_map')]]
    /\ pc' = "l_done"
    /\ UNCHANGED <<config, tree, walker, path_chan, tasks, result_chan,
                   exact_map, exact_lower_map, trigram_map, query_vars, merged_ids,
                   store_vars>>

\* a query against the legacy index
QueryLegacy(query, options) ==
    /\ pc = "l_done"
    /\ qin = NoQuery
    /\ qin' = [mode |-> "legacy", query |-> query, options |-> options]
    /\ qres' = query_with_options(path_index, token_map, query, options)
    /\ UNCHANGED <<registry_vars, build_vars, legacy_vars,
                   store_vars>>

Next ==
    \/ WalkerStep
    \/ WalkerFinish
    \/ WalkerPanic
    \/ Dispatch
    \/ DispatchEnd
    \/ \E t \in tasks : Worker(t)
    \/ ScopeExit
    \/ Join
    \/ MergeStep
    \/ MergeEnd
    \/ \E mode \in QueryModes, query \in Queries, options \in PlainOptions :
          Query(mode, query, options)
    \/ LegacyCollect
    \/ \E chunk_idx \in 0..MaxFiles : LegacyChunk(chunk_idx)
    \/ LegacyMerge
    \/ \E query \in Queries, options \in PlainOptions : QueryLegacy(query, options)

Spec == Init /\ [][Next]_vars

\* ------------------------------------------------------------------------
\* Vocabulary of the properties
\* ------------------------------------------------------------------------
\* the maximal runs <<first, last>> of bytes of s that belong to class
MaximalRuns(s, class) ==
    {r \in (1..Len(s)) \X (1..Len(s)) :
        /\ r[1] <= r[2]
        /\ \A k \in r[1]..r[2] : s[k] \in class
        /\ (r[1] = 1 \/ s[r[1] - 1] \notin class)
        /\ (r[2] = Len(s) \/ s[r[2] + 1] \notin class)}

RunLen(r) == r[2] - r[1] + 1

\* letters and digits; the bytes of an identifier: letters, digits, '_', '-'
AlnumBytes == (48..57) \cup (65..90) \cup (97..122)

IdentifierBytes == AlnumBytes \cup {95, 45}

\* ASCII lowercasing of a byte string
Lowered(s) == [i \in 1..Len(s) |-> IF s[i] \in 65..90 THEN s[i] + 32 ELSE s[i]]

\* the identifier tokens of a byte string: its maximal runs of identifier
\* bytes
IdentifierTokens(s) ==
    {SubSeq(s, r[1], r[2]) : r \in MaximalRuns(s, IdentifierBytes)}

\* the string is one identifier token of at least n bytes
SingleToken(s, n) ==
    Len(s) >= n /\ \A k \in 1..Len(s) : s[k] \in IdentifierBytes

\* the build can read the file and does not take it for a binary
Indexable(file) ==
    /\ file.readable
    /\ \A i \in 1..Len(file.content) : i <= BINARY_CHECK_LEN => file.content[i] # 0

\* ids handed out so far and the file behind an id
IndexedIds == 0..(Len(calls) - 1)

FileOf(i) == file_at(tree, calls[i + 1].path)

\* the ids of the files a query returned
ResultIds ==
    {i \in IndexedIds : \E n \in 1..Len(qres.files) :
        get_file_path(path_index, i) = Some(qres.files[n])}

Posting(map, key) == IF key \in DOMAIN map THEN map[key] ELSE {}

\* the paths the walker has sent so far
RECURSIVE SentPaths(_)
SentPaths(n) ==
    IF n = 0 THEN <<>>
    ELSE SentPaths(n - 1) \o
         (IF /\ tree[n].kind = "file"
             /\ survives_read_dir(tree[n], config.exclude_patterns)
             /\ passes_file_filter(tree[n], config)
          THEN <<tree[n].path>> ELSE <<>>)

SplitBuild == pc \in {"dispatch", "scope", "join", "merge", "done", "failed"}

\* C2: file ids are dense and follow arrival order: the k-th register_file
\* call (0-based) returns k, the coordinator registers the paths in the
\* order the walker sent them, and the id a worker task carries is the
\* arrival position of its path, whatever the workers' completion order.
C2_DenseArrivalOrderIds ==
    /\ \A k \in 1..Len(calls) : calls[k].file_id = k - 1
    /\ SplitBuild =>
          /\ [k \in 1..Len(calls) |-> calls[k].path] \o path_chan
                = SentPaths(walker.pos)
          /\ \A t \in tasks :
                /\ t.file_id \in IndexedIds
                /\ calls[t.file_id + 1].path = t.path

\* two files were registered and the worker of the second finished first
C2_Witness ==
    /\ SplitBuild
    /\ Len(calls) = 2
    /\ Len(result_chan) = 2
    /\ result_chan[1].file_id = 1

\* C3: when scan_and_build_indexes returns Ok, id i is in the exact posting
\* of key k iff k is the hash of a token extracted from file i, i is in the
\* trigram posting of g iff g is a trigram extracted from file i, and every
\* id in a bitmap is below file_count().
C3_PostingsAreExtractedTokens ==
    pc = "done" =>
        /\ \A i \in IndexedIds :
              /\ \A k \in unwrap_or_default(extract_exact_tokens_from_file(FileOf(i))) :
                    i \in Posting(exact_map, k)
              /\ \A g \in unwrap_or_default(extract_trigrams_from_file(FileOf(i))) :
                    i \in Posting(trigram_map, g)
        /\ \A k \in DOMAIN exact_map : \A i \in exact_map[k] :
              /\ i < file_count(path_index)
              /\ k \in unwrap_or_default(extract_exact_tokens_from_file(FileOf(i)))
        /\ \A g \in DOMAIN trigram_map : \A i \in trigram_map[g] :
              /\ i < file_count(path_index)
              /\ g \in unwrap_or_default(extract_trigrams_from_file(FileOf(i)))

\* the build returned Ok with a token and a trigram shared by two files
C3_Witness ==
    /\ pc = "done"
    /\ \E k \in DOMAIN exact_map : Cardinality(exact_map[k]) = 2
    /\ \E g \in DOMAIN trigram_map : Cardinality(trigram_map[g]) = 2

\* C4 (as stated): with match_all, query_exact returns a file only if the
\* file is in the posting list of every token of the query, a token without
\* posting list included; without match_all it returns a file iff the file
\* is in the posting list of at least one query token.
C4_AndNeedsEveryToken ==
    qin.mode = "exact" =>
        LET keys == Range(tokenize_query_exact(qin.query)) IN
        IF qin.options.match_all
        THEN \A i \in ResultIds : \A k \in keys : i \in Posting(exact_map, k)
        ELSE ResultIds = {i \in IndexedIds : \E k \in keys : i \in Posting(exact_map, k)}

\* where the keys of a query sit in its text, per mode: the identifier
\* tokens (exact, exact_lower) or alphanumeric tokens (legacy) of at least
\* 2 bytes, or the 3-byte windows inside an identifier token (fuzzy)
KeySites(mode, q) ==
    IF mode = "fuzzy"
    THEN {<<k, k + 2>> : k \in {k \in 1..(Len(q) - 2) :
                                  \A d \in 0..2 : q[k + d] \in IdentifierBytes}}
    ELSE IF mode = "legacy"
    THEN {r \in MaximalRuns(q, AlnumBytes) : RunLen(r) >= 2}
    ELSE {r \in MaximalRuns(q, IdentifierBytes) : RunLen(r) >= 2}

\* the key read at a site
KeyAt(mode, q, r) ==
    IF mode = "fuzzy"
    THEN LET w == Lowered(SubSeq(q, r[1], r[2])) IN pack_trigram(w[1], w[2], w[3])
    ELSE IF mode = "exact_lower" THEN hash_token(Lowered(SubSeq(q, r[1], r[2])))
    ELSE hash_token(SubSeq(q, r[1], r[2]))

\* the posting store a mode looks its keys up in
StoreOf(mode) ==
    IF mode = "fuzzy" THEN trigram_map
    ELSE IF mode = "exact_lower" THEN exact_lower_map
    ELSE IF mode = "legacy" THEN token_map
    ELSE exact_map

\* C5: for each of the four query functions, query_token_count is the
\* number of keys the mode's scanner extracts from the query (repeats
\* counted) and matched_token_count the number of those with a posting
\* list; no key gives an empty result with both counts 0, and no key with a
\* posting gives an empty result with matched_token_count 0.
C5_TokenCounts ==
    qin.mode # "none" =>
        LET sites   == KeySites(qin.mode, qin.query)
            matched == {r \in sites :
                          KeyAt(qin.mode, qin.query, r) \in DOMAIN StoreOf(qin.mode)}
        IN  /\ qres.query_token_count = Cardinality(sites)
            /\ qres.matched_token_count = Cardinality(matched)
            /\ qres.matched_token_count <= qres.query_token_count
            /\ matched = {} => qres.files = <<>>

\* a query of two keys, one of them with a posting list, in every mode, and
\* a query with a repeated key
C5_Witness ==
    /\ qin.mode \in {"exact", "exact_lower", "fuzzy", "legacy"}
    /\ qres.query_token_count = 2
    /\ qres.matched_token_count = 1
    /\ qres.files # <<>>

\* C8: query_exact with a single-token query t, no filter and no limit,
\* returns exactly the files the build could read as text that hold t as a
\* whole identifier token: every such file, and no file that holds t only
\* inside a longer identifier.
C8_ExactPreservesIdentifiers ==
    (qin.mode = "exact" /\ SingleToken(qin.query, MIN_TOKEN_LENGTH)) =>
        ResultIds = {i \in IndexedIds :
                        /\ Indexable(FileOf(i))
                        /\ qin.query \in IdentifierTokens(FileOf(i).content)}

\* query "ab" on a tree with a file "ab" and a file "ab_a": one is returned
C8_Witness ==
    /\ qin.mode = "exact"
    /\ qin.query = <<97, 98>>
    /\ Len(calls) = 2
    /\ \E i \in IndexedIds : FileOf(i).content = <<97, 98, 95, 97>>
    /\ Cardinality(ResultIds) = 1

\* C9: query_fuzzy with match_all and no filter returns every file read as
\* text one of whose tokens contains the query (one run of at least 3 token
\* bytes) after lowercasing both; a query whose tokens are all shorter than
\* 3 bytes returns no file and query_token_count 0.
C9_FuzzyNoFalseNegatives ==
    qin.mode = "fuzzy" =>
        /\ (qin.options.match_all /\ SingleToken(qin.query, MIN_TRIGRAM_TOKEN_LENGTH)) =>
              \A i \in IndexedIds :
                 (/\ Indexable(FileOf(i))
                  /\ \E tk \in IdentifierTokens(FileOf(i).content) :
                        Contains(Lowered(tk), Lowered(qin.query)))
                 => i \in ResultIds
        /\ (\A r \in MaximalRuns(qin.query, IdentifierBytes) :
                RunLen(r) < MIN_TRIGRAM_TOKEN_LENGTH) =>
              /\ qres.files = <<>>
              /\ qres.query_token_count = 0

\* query "ABA" finds the file "baba"
C9_Witness ==
    /\ qin.mode = "fuzzy"
    /\ qin.options.match_all
    /\ qin.query = <<65, 66, 65>>
    /\ \E i \in ResultIds : FileOf(i).content = <<98, 97, 98, 97>>

ApiToken == <<97, 98>>

ApiPaths == {WalkPaths[1], WalkPaths[2], WalkPaths[3]}

\* limits None, 0, 1, 2; path_contains None or "S/"; glob patterns None,
\* ["*.R"] or ["[", "b.h"] (the first does not compile); exclude None or "A."
ApiOptions ==
    {[limit |-> l, match_all |-> FALSE, path_contains |-> pcn,
      glob_patterns |-> g, exclude |-> x] :
        l \in {None, Some(0), Some(1), Some(2)},
        pcn \in {None, Some(<<83, 47>>)},
        g \in {None, Some(<< <<42, 46, 82>> >>), Some(<< <<91>>, <<98, 46, 104>> >>)},
        x \in {None, Some(<<65, 46>>)}}

InitApi ==
    /\ path_index = PathIndex_new
    /\ calls = <<>>
    /\ config = ScanConfig_default
    /\ tree = <<>>
    /\ walker = [pos |-> 0, status |-> "idle"]
    /\ path_chan = <<>>
    /\ tasks = {}
    /\ result_chan = <<>>
    /\ exact_map = EmptyMap
    /\ exact_lower_map = EmptyMap
    /\ trigram_map = EmptyMap
    /\ pc \in {"api_split", "api_legacy"}
    /\ legacy = NoLegacy
    /\ token_map = EmptyMap
    /\ qin = NoQuery
    /\ qres = NoResult
    /\ merged_ids = <<>>
    /\ StoreIdle

\* PathIndex::register_file, or TokenIndex::register_file on the legacy index
ApiRegisterFile(path) ==
    /\ qin = NoQuery
    /\ Len(calls) < MaxApiFiles
    /\ LET r == TokenIndex_register_file(path_index, path)
       IN  /\ path_index' = r.index
           /\ calls' = Append(calls, [path |-> path, file_id |-> r.file_id])
           /\ legacy' = IF pc = "api_legacy"
                        THEN [legacy EXCEPT !.metadata.file_count = r.file_count]
                        ELSE legacy
    /\ UNCHANGED <<build_vars, token_map, query_vars,
                   store_vars>>

\* ExactTokenIndex::add_token / TokenIndex::add_token with any id, also one
\* that no register_file call returned
ApiAddToken(file_id) ==
    /\ qin = NoQuery
    /\ IF pc = "api_split"
       THEN /\ exact_map' = add_token(exact_map, hash_token(ApiToken), file_id)
            /\ UNCHANGED token_map
       ELSE /\ token_map' = add_token(token_map, hash_token(ApiToken), file_id)
            /\ UNCHANGED exact_map
    /\ UNCHANGED <<registry_vars, config, tree, walker, path_chan, tasks,
                   result_chan, exact_lower_map, trigram_map, pc, legacy,
                   query_vars, merged_ids,
                   store_vars>>

\* query_exact, or query_with_options on the legacy index
ApiQuery(options) ==
    /\ qin = NoQuery
    /\ out = NoOutcome
    /\ qin' = [mode |-> IF pc = "api_split" THEN "exact" ELSE "legacy",
               query |-> ApiToken, options |-> options]
    /\ qres' = IF pc = "api_split"
               THEN query_exact(path_index, exact_map, ApiToken, options)
               ELSE query_with_options(path_index, token_map, ApiToken, options)
    /\ UNCHANGED <<registry_vars, build_vars, legacy_vars,
                   store_vars>>

\* Glob::compile_matcher().is_match on a file name (case-sensitive)
RECURSIVE glob_matcher_is_match(_, _)
glob_matcher_is_match(pattern, name) ==
    IF Len(pattern) = 0 THEN Len(name) = 0
    ELSE IF pattern[1] = 42
         THEN \/ glob_matcher_is_match(Tail(pattern), name)
              \/ (Len(name) > 0 /\ glob_matcher_is_match(pattern, Tail(name)))
    ELSE IF pattern[1] = 63
         THEN Len(name) > 0 /\ glob_matcher_is_match(Tail(pattern), Tail(name))
    ELSE /\ Len(name) > 0
         /\ pattern[1] = name[1]
         /\ glob_matcher_is_match(Tail(pattern), Tail(name))

\* the paths of the files of iter_filenames whose name matches, up to the
\* limit, in id order
RECURSIVE glob_take(_, _, _, _)
glob_take(index, pattern, limit, file_id) ==
    IF file_id >= Len(index.files) \/ limit = Some(0) THEN <<>>
    ELSE IF glob_matcher_is_match(pattern, index.files[file_id + 1][2])
    THEN <<get_file_path(index, file_id)[1]>>
         \o glob_take(index, pattern,
                      IF limit = None THEN None ELSE Some(limit[1] - 1),
                      file_id + 1)
    ELSE glob_take(index, pattern, limit, file_id + 1)

\* glob_files: InvalidPattern when the pattern does not compile
glob_files(index, pattern, options) ==
    IF glob_build(pattern) = None THEN [ok |-> FALSE, error |-> "InvalidPattern"]
    ELSE [ok |-> TRUE,
          value |-> [files |-> glob_take(index, pattern, options.limit, 0),
                     pattern |-> pattern,
                     files_scanned |-> file_count(index)]]

\* the patterns handed to glob_files: "*.r", "a.?", "[" (does not compile)
ApiGlobs == {<<42, 46, 114>>, <<97, 46, 63>>, <<91>>}

\* glob_files on the legacy index, before any query
ApiGlobFiles(pattern, limit) ==
    /\ pc = "api_legacy"
    /\ qin = NoQuery
    /\ out = NoOutcome
    /\ out' = [op |-> "glob_files", pattern |-> pattern,
               result |-> glob_files(path_index, pattern, [limit |-> limit])]
    /\ UNCHANGED <<registry_vars, build_vars, legacy_vars, query_vars, runs,
                   disk, origin>>

NextApi ==
    \/ \E path \in ApiPaths : ApiRegisterFile(path)
    \/ \E file_id \in 0..MaxApiFiles : ApiAddToken(file_id)
    \/ \E options \in ApiOptions : ApiQuery(options)
    \/ \E pattern \in ApiGlobs, limit \in {None, Some(1)} :
          ApiGlobFiles(pattern, limit)

SpecApi == InitApi /\ [][NextApi]_vars

\* the query of the state, asked again without limit
UnlimitedFiles ==
    LET unlimited == [qin.options EXCEPT !.limit = None]
    IN  IF qin.mode = "legacy"
        THEN query_with_options(path_index, token_map, qin.query, unlimited).files
        ELSE query_exact(path_index, exact_map, qin.query, unlimited).files

\* C6: with limit L the files a query returns (query_exact through
\* resolve_file_ids, query_with_options on the legacy index) are the first
\* min(L, n) entries of the n files the same query returns without limit.
C6_LimitIsPrefix ==
    (qin.mode \in {"exact", "legacy"} /\ qin.options.limit # None) =>
        qres.files = SubSeq(UnlimitedFiles, 1,
                            Min(qin.options.limit[1], Len(UnlimitedFiles)))

\* limit 1 where a filter rejected the lowest id of the posting: the file
\* returned is a later one
C6_Witness ==
    /\ qin.mode = "exact"
    /\ qin.options.limit = Some(1)
    /\ 0 \in Posting(exact_map, hash_token(ApiToken))
    /\ Len(qres.files) = 1
    /\ get_file_path(path_index, 0) # Some(qres.files[1])

\* the text of a path: its components separated by '/'
RECURSIVE PathText(_)
PathText(path) ==
    IF Len(path) = 0 THEN <<>>
    ELSE IF Len(path) = 1 THEN path[1]
    ELSE path[1] \o <<47>> \o PathText(Tail(path))

\* a pattern of the shapes used here matches a name, case-insensitively:
\* "*" followed by a literal suffix, or a literal; a pattern with an
\* unclosed '[' matches nothing
GlobAccepts(pattern, name) ==
    IF 91 \in Range(pattern) THEN FALSE
    ELSE IF pattern[1] = 42
    THEN /\ Len(name) >= Len(pattern) - 1
         /\ Lowered(SubSeq(name, Len(name) - Len(pattern) + 2, Len(name)))
               = Lowered(Tail(pattern))
    ELSE Lowered(name) = Lowered(pattern)

\* the path passes every configured post-filter
Accepts(options, path) ==
    /\ options.path_contains # None =>
          Contains(Lowered(PathText(path)), Lowered(options.path_contains[1]))
    /\ options.glob_patterns # None =>
          \E n \in 1..Len(options.glob_patterns[1]) :
              GlobAccepts(options.glob_patterns[1][n], path[Len(path)])
    /\ options.exclude # None =>
          ~Contains(Lowered(PathText(path)), Lowered(options.exclude[1]))

\* C7: resolve_file_ids returns, one entry per id and in ascending id
\* order, exactly the paths of the ids of the bitmap that pass all the
\* configured post-filters (path_contains, glob on the basename, exclude,
\* all case-insensitive); an unset filter accepts every path.
C7_ResolveFiltersInIdOrder ==
    (qin.mode = "exact" /\ pc = "api_split" /\ qin.options.limit = None) =>
        LET ids == SortedSeq({i \in Posting(exact_map, hash_token(ApiToken)) :
                                /\ i < Len(calls)
                                /\ Accepts(qin.options, calls[i + 1].path)})
        IN  qres.files = [n \in 1..Len(ids) |-> calls[ids[n] + 1].path]

\* all three filters set, a posting of two registered files, one passes
C7_Witness ==
    /\ qin.mode = "exact"
    /\ pc = "api_split"
    /\ qin.options.limit = None
    /\ qin.options.path_contains # None
    /\ qin.options.glob_patterns # None
    /\ qin.options.exclude # None
    /\ {0, 1} \subseteq Posting(exact_map, hash_token(ApiToken))
    /\ Len(calls) = 2
    /\ Len(qres.files) = 1

\* ------------------------------------------------------------------------
\* Index headers (index.rs)
\* ------------------------------------------------------------------------
FORMAT_VERSION == 3

\* generate_index_id: bytes 0..8 are the low 8 bytes of the clock reading in
\* nanoseconds, bytes 8..12 the process id, bytes 12..16 the low 4 bytes of
\* the address of a local.  Each group is kept as one number; the readings
\* of the model are far below the widths, so nothing is truncated.
generate_index_id(nanos, pid, addr) == <<nanos, pid, addr>>

\* IndexHeader::new: the current format version, a generated id, and the
\* clock reading in seconds
IndexHeader_new(nanos, pid, addr, secs) ==
    [version    |-> FORMAT_VERSION,
     index_id   |-> generate_index_id(nanos, pid, addr),
     created_at |-> secs]

\* PathIndex::new(header, root_path), with the fields persistence needs
PathIndex_new_with(header, root_path) ==
    [header |-> header, root_path |-> root_path, directories |-> <<>>,
     files |-> <<>>, dir_lookup |-> <<>>]

\* PathIndex::register_file on an index that carries header and root_path
PathIndex_register_file(index, path) ==
    LET r == register_file(index, path)
    IN  [index EXCEPT !.directories = r.index.directories,
                      !.files       = r.index.files,
                      !.dir_lookup  = r.index.dir_lookup]

\* faulty variant: the lookup table stays empty
rebuild_dir_lookup_skipped(index) == [index EXCEPT !.dir_lookup = <<>>]

\* PathIndex::rebuild_dir_lookup: directory -> its position; of equal
\* directories the later position wins (collect into a map)
rebuild_dir_lookup(index) ==
    [index EXCEPT !.dir_lookup =
        [d \in Range(index.directories) |->
            (CHOOSE i \in 1..Len(index.directories) :
                /\ index.directories[i] = d
                /\ \A j \in 1..Len(index.directories) :
                      index.directories[j] = d => j <= i) - 1]]

\* ExactTokenIndex::new(header) with its token_map filled in
ExactTokenIndex_with(header, map) == [header |-> header, token_map |-> map]

\* TrigramIndex::new(header) with its trigram_map filled in
TrigramIndex_with(header, map) == [header |-> header, trigram_map |-> map]

\* ------------------------------------------------------------------------
\* Encoding (bincode with serde, persistence.rs).  A file is a sequence of
\* numbers: each integer field is one number, a fixed array is its elements,
\* a string or sequence is its length followed by its elements.
\* ------------------------------------------------------------------------
MAGIC_PATHS == <<84, 75, 73, 80>>

MAGIC_EXACT == <<84, 75, 73, 69>>

MAGIC_TRIGRAM == <<84, 75, 73, 84>>

\* the number of groups of an index id (see generate_index_id)
IndexIdLen == Len(generate_index_id(0, 0, 0))

\* str::from_utf8 succeeds: ASCII bytes and the encoding of U+FFFD
RECURSIVE is_utf8(_)
is_utf8(bytes) ==
    IF Len(bytes) = 0 THEN TRUE
    ELSE IF bytes[1] < 128 THEN is_utf8(Tail(bytes))
    ELSE IF Len(bytes) >= 3 /\ SubSeq(bytes, 1, 3) = <<239, 191, 189>>
    THEN is_utf8(SubSeq(bytes, 4, Len(bytes)))
    ELSE FALSE

\* Path::to_str: the components joined by '/', None when a component is not
\* valid UTF-8
RECURSIVE path_to_str(_)
path_to_str(path) ==
    IF Len(path) = 0 THEN Some(<<>>)
    ELSE IF ~is_utf8(path[1]) THEN None
    ELSE IF Len(path) = 1 THEN Some(path[1])
    ELSE LET rest == path_to_str(Tail(path))
         IN  IF rest = None THEN None
             ELSE Some(path[1] \o <<47>> \o rest[1])

\* PathBuf::from(String): the components between the '/' separators
RECURSIVE path_from_str(_, _)
path_from_str(bytes, component) ==
    IF Len(bytes) = 0
    THEN (IF Len(component) = 0 THEN <<>> ELSE <<component>>)
    ELSE IF bytes[1] = 47
    THEN (IF Len(component) = 0 THEN <<>> ELSE <<component>>)
         \o path_from_str(Tail(bytes), <<>>)
    ELSE path_from_str(Tail(bytes), Append(component, bytes[1]))

encode_str(bytes) == <<Len(bytes)>> \o bytes

encode_header(h) == <<h.version>> \o h.index_id \o <<h.created_at>>

\* Serialize for Path: an error unless the path is valid UTF-8
encode_path(path) ==
    LET str == path_to_str(path)
    IN  IF str = None THEN None ELSE Some(encode_str(str[1]))

RECURSIVE encode_paths(_)
encode_paths(paths) ==
    IF Len(paths) = 0 THEN Some(<<>>)
    ELSE LET first == encode_path(paths[1])
             rest  == encode_paths(Tail(paths))
         IN  IF first = None \/ rest = None THEN None
             ELSE Some(first[1] \o rest[1])

RECURSIVE encode_files(_)
encode_files(files) ==
    IF Len(files) = 0 THEN <<>>
    ELSE <<files[1][1]>> \o encode_str(files[1][2]) \o encode_files(Tail(files))

\* bincode::encode_to_vec of a PathIndex: header, root_path, directories,
\* files; dir_lookup is #[serde(skip)]
encode_path_index(index) ==
    LET root == encode_path(index.root_path)
        dirs == encode_paths(index.directories)
    IN  IF root = None \/ dirs = None THEN None
        ELSE Some(encode_header(index.header)
                  \o root[1]
                  \o <<Len(index.directories)>> \o dirs[1]
                  \o <<Len(index.files)>> \o encode_files(index.files))

\* a posting key: a token hash (kept as the hashed bytes behind their
\* length) is already a sequence, a packed trigram is one number
encode_key(key, hashed) == IF hashed THEN key ELSE <<key>>

\* the entries of a map in the order the hash map iterates them
RECURSIVE encode_entries(_, _, _)
encode_entries(map, keys, hashed) ==
    IF keys = {} THEN <<>>
    ELSE LET k == CHOOSE x \in keys : TRUE
         IN  encode_key(k, hashed) \o <<Cardinality(map[k])>> \o SortedSeq(map[k])
             \o encode_entries(map, keys \ {k}, hashed)

\* bincode::encode_to_vec of an ExactTokenIndex
encode_exact_index(index) ==
    encode_header(index.header)
    \o <<Cardinality(DOMAIN index.token_map)>>
    \o encode_entries(index.token_map, DOMAIN index.token_map, TRUE)

\* bincode::encode_to_vec of a TrigramIndex
encode_trigram_index(index) ==
    encode_header(index.header)
    \o <<Cardinality(DOMAIN index.trigram_map)>>
    \o encode_entries(index.trigram_map, DOMAIN index.trigram_map, FALSE)

\* Decoding reads a prefix of the bytes: Some(<<value, rest>>), or None when
\* the bytes end early or a string is not UTF-8.  Trailing bytes are ignored.
decode_take(bytes, n) ==
    IF Len(bytes) < n THEN None
    ELSE Some(<<SubSeq(bytes, 1, n), SubSeq(bytes, n + 1, Len(bytes))>>)

decode_str(bytes) ==
    IF Len(bytes) = 0 THEN None
    ELSE LET taken == decode_take(Tail(bytes), bytes[1])
         IN  IF taken = None THEN None
             ELSE IF ~is_utf8(taken[1][1]) THEN None
             ELSE taken

decode_header(bytes) ==
    IF Len(bytes) < IndexIdLen + 2 THEN None
    ELSE Some(<<[version    |-> bytes[1],
                 index_id   |-> SubSeq(bytes, 2, IndexIdLen + 1),
                 created_at |-> bytes[IndexIdLen + 2]],
                SubSeq(bytes, IndexIdLen + 3, Len(bytes))>>)

RECURSIVE decode_paths(_, _, _)
decode_paths(bytes, n, acc) ==
    IF n = 0 THEN Some(<<acc, bytes>>)
    ELSE LET str == decode_str(bytes)
         IN  IF str = None THEN None
             ELSE decode_paths(str[1][2], n - 1,
                               Append(acc, path_from_str(str[1][1], <<>>)))

RECURSIVE decode_files(_, _, _)
decode_files(bytes, n, acc) ==
    IF n = 0 THEN Some(<<acc, bytes>>)
    ELSE IF Len(bytes) = 0 THEN None
    ELSE LET str == decode_str(Tail(bytes))
         IN  IF str = None THEN None
             ELSE decode_files(str[1][2], n - 1,
                               Append(acc, <<bytes[1], str[1][1]>>))

\* bincode::decode of a PathIndex; the skipped dir_lookup is empty
decode_path_index(bytes) ==
    LET header == decode_header(bytes) IN
    IF header = None THEN None ELSE
    LET root == decode_paths(header[1][2], 1, <<>>) IN
    IF root = None \/ Len(root[1][2]) = 0 THEN None ELSE
    LET dirs == decode_paths(Tail(root[1][2]), root[1][2][1], <<>>) IN
    IF dirs = None \/ Len(dirs[1][2]) = 0 THEN None ELSE
    LET files == decode_files(Tail(dirs[1][2]), dirs[1][2][1], <<>>) IN
    IF files = None THEN None
    ELSE Some([header      |-> header[1][1],
               root_path   |-> root[1][1][1],
               directories |-> dirs[1][1],
               files       |-> files[1][1],
               dir_lookup  |-> <<>>])

decode_key(bytes, hashed) ==
    IF Len(bytes) = 0 THEN None
    ELSE IF hashed
    THEN (IF Len(bytes) < bytes[1] + 1 THEN None
          ELSE Some(<<SubSeq(bytes, 1, bytes[1] + 1),
                      SubSeq(bytes, bytes[1] + 2, Len(bytes))>>))
    ELSE Some(<<bytes[1], Tail(bytes)>>)

RECURSIVE decode_entries(_, _, _, _)
decode_entries(bytes, n, hashed, acc) ==
    IF n = 0 THEN Some(<<acc, bytes>>)
    ELSE LET key == decode_key(bytes, hashed) IN
         IF key = None \/ Len(key[1][2]) = 0 THEN None ELSE
         LET ids == decode_take(Tail(key[1][2]), key[1][2][1]) IN
         IF ids = None THEN None
         ELSE decode_entries(ids[1][2], n - 1, hashed,
                             [k \in DOMAIN acc \cup {key[1][1]} |->
                                 IF k = key[1][1] THEN Range(ids[1][1])
                                 ELSE acc[k]])

\* bincode::decode of an ExactTokenIndex
decode_exact_index(bytes) ==
    LET header == decode_header(bytes) IN
    IF header = None \/ Len(header[1][2]) = 0 THEN None ELSE
    LET entries == decode_entries(Tail(header[1][2]), header[1][2][1], TRUE,
                                  EmptyMap) IN
    IF entries = None THEN None
    ELSE Some(ExactTokenIndex_with(header[1][1], entries[1][1]))

\* bincode::decode of a TrigramIndex
decode_trigram_index(bytes) ==
    LET header == decode_header(bytes) IN
    IF header = None \/ Len(header[1][2]) = 0 THEN None ELSE
    LET entries == decode_entries(Tail(header[1][2]), header[1][2][1], FALSE,
                                  EmptyMap) IN
    IF entries = None THEN None
    ELSE Some(TrigramIndex_with(header[1][1], entries[1][1]))

\* ------------------------------------------------------------------------
\* Saving and loading (persistence.rs).  A file of the disk is None when it
\* does not exist, else Some(bytes).  Ok(v) and Err(kind) are the results.
\* ------------------------------------------------------------------------
Ok(v) == [ok |-> TRUE, value |-> v]

Err(kind) == [ok |-> FALSE, error |-> kind]

\* what can go wrong outside the program while one file is written:
\* nothing, File::create fails, or the write stops after `len` bytes
NoFault == [kind |-> "none", len |-> 0]

\* the result of writing magic and payload to a file under a fault; payload
\* is None when encoding failed: the buffered magic is flushed when the
\* writer is dropped
write_file(before, magic, payload, fault) ==
    IF fault.kind = "create" THEN [result |-> Err("Io"), file |-> before]
    ELSE IF payload = None
    THEN [result |-> Err("Serialization"), file |-> Some(magic)]
    ELSE IF fault.kind = "cut" /\ fault.len < Len(magic \o payload[1])
    THEN [result |-> Err("Io"),
          file   |-> Some(SubSeq(magic \o payload[1], 1, fault.len))]
    ELSE [result |-> Ok(<<>>), file |-> Some(magic \o payload[1])]

save_paths(index, before, fault) ==
    write_file(before, MAGIC_PATHS, encode_path_index(index), fault)

save_exact(index, before, fault) ==
    write_file(before, MAGIC_EXACT, Some(encode_exact_index(index)), fault)

save_trigram(index, before, fault) ==
    write_file(before, MAGIC_TRIGRAM, Some(encode_trigram_index(index)), fault)

\* the loaders.  read_exact of the magic fails with Io on a file of fewer
\* than 4 bytes; Mmap::map of an empty file fails or yields an empty map,
\* by platform and library version (maps_empty)
load_paths(file) ==
    IF file = None THEN Err("Io")
    ELSE IF Len(file[1]) < 4 THEN Err("Io")
    ELSE IF SubSeq(file[1], 1, 4) # MAGIC_PATHS THEN Err("InvalidIndexFormat")
    ELSE LET index == decode_path_index(SubSeq(file[1], 5, Len(file[1]))) IN
         IF index = None THEN Err("Serialization")
         ELSE IF index[1].header.version # FORMAT_VERSION
         THEN Err("InvalidIndexFormat")
         ELSE Ok(rebuild_dir_lookup(index[1]))

load_paths_mmap(file, maps_empty) ==
    IF file = None THEN Err("Io")
    ELSE IF Len(file[1]) = 0 /\ ~maps_empty THEN Err("Io")
    ELSE IF Len(file[1]) < 4 \/ SubSeq(file[1], 1, 4) # MAGIC_PATHS
    THEN Err("InvalidIndexFormat")
    ELSE LET index == decode_path_index(SubSeq(file[1], 5, Len(file[1]))) IN
         IF index = None THEN Err("Serialization")
         ELSE IF index[1].header.version # FORMAT_VERSION
         THEN Err("InvalidIndexFormat")
         ELSE Ok(rebuild_dir_lookup(index[1]))

\* faulty variant: the magic bytes are skipped unchecked
load_exact_unchecked_magic(file) ==
    IF file = None THEN Err("Io")
    ELSE IF Len(file[1]) < 4 THEN Err("Io")
    ELSE LET index == decode_exact_index(SubSeq(file[1], 5, Len(file[1]))) IN
         IF index = None THEN Err("Serialization")
         ELSE IF index[1].header.version # FORMAT_VERSION
         THEN Err("InvalidIndexFormat")
         ELSE Ok(index[1])

load_exact(file) ==
    IF file = None THEN Err("Io")
    ELSE IF Len(file[1]) < 4 THEN Err("Io")
    ELSE IF SubSeq(file[1], 1, 4) # MAGIC_EXACT THEN Err("InvalidIndexFormat")
    ELSE LET index == decode_exact_index(SubSeq(file[1], 5, Len(file[1]))) IN
         IF index = None THEN Err("Serialization")
         ELSE IF index[1].header.version # FORMAT_VERSION
         THEN Err("InvalidIndexFormat")
         ELSE Ok(index[1])

load_exact_mmap(file, maps_empty) ==
    IF file = None THEN Err("Io")
    ELSE IF Len(file[1]) = 0 /\ ~maps_empty THEN Err("Io")
    ELSE IF Len(file[1]) < 4 \/ SubSeq(file[1], 1, 4) # MAGIC_EXACT
    THEN Err("InvalidIndexFormat")
    ELSE LET index == decode_exact_index(SubSeq(file[1], 5, Len(file[1]))) IN
         IF index = None THEN Err("Serialization")
         ELSE IF index[1].header.version # FORMAT_VERSION
         THEN Err("InvalidIndexFormat")
         ELSE Ok(index[1])

load_trigram(file) ==
    IF file = None THEN Err("Io")
    ELSE IF Len(file[1]) < 4 THEN Err("Io")
    ELSE IF SubSeq(file[1], 1, 4) # MAGIC_TRIGRAM THEN Err("InvalidIndexFormat")
    ELSE LET index == decode_trigram_index(SubSeq(file[1], 5, Len(file[1]))) IN
         IF index = None THEN Err("Serialization")
         ELSE IF index[1].header.version # FORMAT_VERSION
         THEN Err("InvalidIndexFormat")
         ELSE Ok(index[1])

load_trigram_mmap(file, maps_empty) ==
    IF file = None THEN Err("Io")
    ELSE IF Len(file[1]) = 0 /\ ~maps_empty THEN Err("Io")
    ELSE IF Len(file[1]) < 4 \/ SubSeq(file[1], 1, 4) # MAGIC_TRIGRAM
    THEN Err("InvalidIndexFormat")
    ELSE LET index == decode_trigram_index(SubSeq(file[1], 5, Len(file[1]))) IN
         IF index = None THEN Err("Serialization")
         ELSE IF index[1].header.version # FORMAT_VERSION
         THEN Err("InvalidIndexFormat")
         ELSE Ok(index[1])

\* validate_index_match: only the index ids are compared
validate_index_match(h1, h2) ==
    IF h1.index_id # h2.index_id THEN Err("IndexMismatch") ELSE Ok(<<>>)

\* save_all: the four files in order, stopping at the first error.  `at` is
\* the file an outside fault hits.  `reached` counts the files it got to.
SaveOrder == <<"paths", "exact", "exacti", "tri">>

fault_at(at, n, fault) == IF at = n THEN fault ELSE NoFault

save_all(paths, exact, exact_lower, trigram, before, at, fault) ==
    LET s1 == save_paths(paths, before["paths"], fault_at(at, 1, fault))
        d1 == [before EXCEPT !["paths"] = s1.file]
    IN  IF ~s1.result.ok THEN [result |-> s1.result, disk |-> d1, reached |-> 1]
        ELSE
    LET s2 == save_exact(exact, before["exact"], fault_at(at, 2, fault))
        d2 == [d1 EXCEPT !["exact"] = s2.file]
    IN  IF ~s2.result.ok THEN [result |-> s2.result, disk |-> d2, reached |-> 2]
        ELSE
    LET s3 == save_exact(exact_lower, before["exacti"], fault_at(at, 3, fault))
        d3 == [d2 EXCEPT !["exacti"] = s3.file]
    IN  IF ~s3.result.ok THEN [result |-> s3.result, disk |-> d3, reached |-> 3]
        ELSE
    LET s4 == save_trigram(trigram, before["tri"], fault_at(at, 4, fault))
        d4 == [d3 EXCEPT !["tri"] = s4.file]
    IN  [result |-> s4.result, disk |-> d4, reached |-> 4]

\* cmd_query on the split format: load the path file, load the posting file
\* of the mode, compare the headers, then look up.  No legacy index file
\* exists at the base path.
cmd_query(files, fuzzy, use_mmap, maps_empty, query_str, options) ==
    IF files["paths"] = None THEN Err("IndexNotFound") ELSE
    LET loaded_paths == IF use_mmap THEN load_paths_mmap(files["paths"], maps_empty)
                      ELSE load_paths(files["paths"])
    IN  IF ~loaded_paths.ok THEN loaded_paths
        ELSE IF ~fuzzy
        THEN LET loaded_exact ==
                    IF use_mmap THEN load_exact_mmap(files["exact"], maps_empty)
                    ELSE load_exact(files["exact"])
             IN  IF ~loaded_exact.ok THEN loaded_exact
                 ELSE IF ~validate_index_match(loaded_paths.value.header,
                                               loaded_exact.value.header).ok
                 THEN Err("IndexMismatch")
                 ELSE Ok(query_exact(loaded_paths.value,
                                     loaded_exact.value.token_map,
                                     query_str, options))
        ELSE LET loaded_trigram ==
                    IF use_mmap THEN load_trigram_mmap(files["tri"], maps_empty)
                    ELSE load_trigram(files["tri"])
             IN  IF ~loaded_trigram.ok THEN loaded_trigram
                 ELSE IF ~validate_index_match(loaded_paths.value.header,
                                               loaded_trigram.value.header).ok
                 THEN Err("IndexMismatch")
                 ELSE Ok(query_fuzzy(loaded_paths.value,
                                     loaded_trigram.value.trigram_map,
                                     query_str, options))

\* ------------------------------------------------------------------------
\* Build runs that save to one base path, and queries against it
\* ------------------------------------------------------------------------
\* the files [path, content] the successive build runs find under the
\* root: first d/a "ab" and d/b "aba", then (the tree has changed) a "aba"
StoreTrees ==
    << << [path |-> <<<<100>>, <<97>>>>, content |-> <<97, 98>>],
          [path |-> <<<<100>>, <<98>>>>, content |-> <<97, 98, 97>>] >>,
       << [path |-> <<<<97>>>>, content |-> <<97, 98, 97>>] >> >>

\* the root every run indexes: "r"
StoreRoot == <<<<114>>>>

\* readings of the system clock (nanoseconds), which is not monotonic; the
\* process id; the stack address of the local in generate_index_id
ClockNanos == {1, 2}

ClockSecs == {0}

ProcessIds == {7}

StackAddrs == {9}

\* the indexes scan_and_build_indexes returns for a header and the files
\* the walk found, with the lowercased index built from the same files
RECURSIVE built_indexes(_, _, _)
built_indexes(acc, files, i) ==
    IF i > Len(files) THEN acc
    ELSE LET file    == [content |-> files[i].content, readable |-> TRUE]
             file_id == register_file(acc.paths, files[i].path).file_id
             result  == process_single_file(file_id, file)
             lower   == unwrap_or_default(extract_exact_lower_tokens_from_file(file))
         IN  built_indexes(
                [paths       |-> PathIndex_register_file(acc.paths, files[i].path),
                 exact       |-> [acc.exact EXCEPT !.token_map =
                                    add_all(@, result.exact_tokens, file_id)],
                 exact_lower |-> [acc.exact_lower EXCEPT !.token_map =
                                    add_all(@, lower, file_id)],
                 trigram     |-> [acc.trigram EXCEPT !.trigram_map =
                                    add_all(@, result.trigrams, file_id)]],
                files, i + 1)

\* the empty indexes of a run: all share one header
new_indexes(header, root) ==
    [paths       |-> PathIndex_new_with(header, root),
     exact       |-> ExactTokenIndex_with(header, EmptyMap),
     exact_lower |-> ExactTokenIndex_with(header, EmptyMap),
     trigram     |-> TrigramIndex_with(header, EmptyMap)]

\* the index arguments of save_all, as positions in `runs`: the path index
\* of one run with the posting indexes of one run
SaveArgs == {<<p, e, e, e>> : p \in 1..Len(runs), e \in 1..Len(runs)}

SaveFaults ==
    {NoFault, [kind |-> "create", len |-> 0], [kind |-> "cut", len |-> 6]}

StoreQueries == {<<97, 98>>}

InitStore ==
    /\ path_index = PathIndex_new
    /\ calls = <<>>
    /\ config = ScanConfig_default
    /\ tree = <<>>
    /\ walker = [pos |-> 0, status |-> "idle"]
    /\ path_chan = <<>>
    /\ tasks = {}
    /\ result_chan = <<>>
    /\ exact_map = EmptyMap
    /\ exact_lower_map = EmptyMap
    /\ trigram_map = EmptyMap
    /\ pc = "store"
    /\ legacy = NoLegacy
    /\ token_map = EmptyMap
    /\ qin = NoQuery
    /\ qres = NoResult
    /\ merged_ids = <<>>
    /\ StoreIdle

\* builds and saves go on until an outcome is observed
Mutable == out.op \in {"none", "build", "save_all"}

\* a run of scan_and_build_indexes returns its indexes; the n-th run finds
\* the n-th tree
BuildRun(files, nanos, secs, pid, addr) ==
    /\ pc = "store"
    /\ Mutable
    /\ Len(runs) < Len(StoreTrees)
    /\ files = StoreTrees[Len(runs) + 1]
    /\ runs' = Append(runs,
                  built_indexes(
                      new_indexes(IndexHeader_new(nanos, pid, addr, secs), StoreRoot),
                      files, 1))
    /\ out' = [op |-> "build", result |-> <<>>]
    /\ UNCHANGED <<registry_vars, build_vars, legacy_vars, query_vars, disk,
                   origin>>

\* save_all, with the fault that stops it (if any)
SaveAll(args, at, fault) ==
    /\ pc = "store"
    /\ Mutable
    /\ fault = NoFault => at = 1
    /\ LET s == save_all(runs[args[1]].paths, runs[args[2]].exact,
                         runs[args[3]].exact_lower, runs[args[4]].trigram,
                         disk, at, fault)
           touched == {k \in 1..s.reached :
                          ~(k = at /\ fault.kind = "create")}
       IN  /\ disk' = s.disk
           /\ origin' = [kind \in FileKinds |->
                            IF \E k \in touched : SaveOrder[k] = kind
                            THEN args[CHOOSE k \in touched : SaveOrder[k] = kind]
                            ELSE origin[kind]]
           /\ out' = [op       |-> "save_all",
                      result   |-> s.result,
                      complete |-> {SaveOrder[k] : k \in
                                       1..(IF s.result.ok THEN 4 ELSE s.reached - 1)}]
    /\ UNCHANGED <<registry_vars, build_vars, legacy_vars, query_vars, runs>>

\* cmd_query in exact or fuzzy mode, buffered or memory-mapped
CmdQuery(fuzzy, use_mmap, maps_empty, query_str) ==
    /\ pc = "store"
    /\ Mutable
    /\ out' = [op     |-> "cmd_query",
               fuzzy  |-> fuzzy,
               result |-> cmd_query(disk, fuzzy, use_mmap, maps_empty, query_str,
                                    [QueryOptions_default EXCEPT !.match_all = TRUE])]
    /\ UNCHANGED <<registry_vars, build_vars, legacy_vars, query_vars, runs,
                   disk, origin>>

\* validate_index_match on the headers of two indexes in memory
Validate(h1, h2) ==
    /\ pc = "store"
    /\ Mutable
    /\ out' = [op |-> "validate", h1 |-> h1, h2 |-> h2,
               result |-> validate_index_match(h1, h2)]
    /\ UNCHANGED <<registry_vars, build_vars, legacy_vars, query_vars, runs,
                   disk, origin>>

\* the headers of the runs, and what a caller can make of them (the fields
\* are public): another version, another creation time
StoreHeaders ==
    {runs[r].paths.header : r \in 1..Len(runs)}
    \cup {[runs[r].paths.header EXCEPT !.version = FORMAT_VERSION - 1,
                                        !.created_at = @ + 1]
             : r \in 1..Len(runs)}

NextStore ==
    \/ \E k \in 1..Len(StoreTrees), nanos \in ClockNanos, secs \in ClockSecs,
          pid \in ProcessIds, addr \in StackAddrs :
          BuildRun(StoreTrees[k], nanos, secs, pid, addr)
    \/ \E args \in SaveArgs, at \in 1..4, fault \in SaveFaults :
          SaveAll(args, at, fault)
    \/ \E fuzzy \in BOOLEAN, use_mmap \in BOOLEAN, maps_empty \in BOOLEAN,
          query_str \in StoreQueries :
          CmdQuery(fuzzy, use_mmap, maps_empty, query_str)
    \/ \E h1 \in StoreHeaders, h2 \in StoreHeaders : Validate(h1, h2)

SpecStore == InitStore /\ [][NextStore]_vars

\* the index id a complete file of the disk carries: the numbers behind the
\* magic and the version
StoredId(kind) == SubSeq(disk[kind][1], 6, 5 + IndexIdLen)

\* the posting file a query of the mode reads
PostingKind(fuzzy) == IF fuzzy THEN "tri" ELSE "exact"

\* C11: a split-format query never joins a path registry and a posting file
\* of different build runs: after any sequence of save_all calls on the base
\* path, failed and interrupted ones included, cmd_query either fails before
\* any lookup or has read a .paths file and a posting file that carry the
\* same index id and were written from the indexes of the same run.
C11_QueryNeverJoinsRuns ==
    (out.op = "cmd_query" /\ out.result.ok) =>
        /\ StoredId("paths") = StoredId(PostingKind(out.fuzzy))
        /\ origin["paths"] = origin[PostingKind(out.fuzzy)]

\* C12: validate_index_match returns Ok iff the two index ids are equal,
\* whatever version and created_at are, and IndexMismatch otherwise; the
\* headers of two different build runs are rejected.
C12_ValidateRejectsOtherRuns ==
    /\ out.op = "validate" =>
          /\ out.result.ok <=> out.h1.index_id = out.h2.index_id
          /\ ~out.result.ok => out.result = Err("IndexMismatch")
    /\ \A i \in 1..Len(runs), j \in 1..Len(runs) :
          i # j => ~validate_index_match(runs[i].paths.header,
                                         runs[j].exact.header).ok

FileTrees ==
    { << [path |-> <<<<100>>, <<97>>>>, content |-> <<97, 98>>],
         [path |-> <<<<100>>, <<98>>>>, content |-> <<97, 98, 97>>] >>,
      << [path |-> <<<<255>>, <<97>>>>, content |-> <<97, 98>>] >>,
      << >> }

Loaders ==
    {"load_paths", "load_paths_mmap", "load_exact", "load_exact_mmap",
     "load_trigram", "load_trigram_mmap"}

\* the loader of the name applied to a file
load_by(loader, file, maps_empty) ==
    CASE loader = "load_paths"        -> load_paths(file)
      [] loader = "load_paths_mmap"   -> load_paths_mmap(file, maps_empty)
      [] loader = "load_exact"        -> load_exact(file)
      [] loader = "load_exact_mmap"   -> load_exact_mmap(file, maps_empty)
      [] loader = "load_trigram"      -> load_trigram(file)
      [] loader = "load_trigram_mmap" -> load_trigram_mmap(file, maps_empty)

\* what happens to a file outside the program: emptied, cut to 2 bytes, cut
\* to its magic, cut by its last byte, or its version field overwritten
Alterations == {"empty", "short", "magic", "cut", "version"}

altered(bytes, how) ==
    CASE how = "empty"   -> <<>>
      [] how = "short"   -> SubSeq(bytes, 1, Min(2, Len(bytes)))
      [] how = "magic"   -> SubSeq(bytes, 1, Min(4, Len(bytes)))
      [] how = "cut"     -> SubSeq(bytes, 1, Len(bytes) - 1)
      [] how = "version" -> IF Len(bytes) < 5 THEN bytes
                            ELSE [bytes EXCEPT ![5] = FORMAT_VERSION + 1]

InitFiles ==
    /\ path_index = PathIndex_new
    /\ calls = <<>>
    /\ config = ScanConfig_default
    /\ tree = <<>>
    /\ walker = [pos |-> 0, status |-> "idle"]
    /\ path_chan = <<>>
    /\ tasks = {}
    /\ result_chan = <<>>
    /\ exact_map = EmptyMap
    /\ exact_lower_map = EmptyMap
    /\ trigram_map = EmptyMap
    /\ pc = "files"
    /\ legacy = NoLegacy
    /\ token_map = EmptyMap
    /\ qin = NoQuery
    /\ qres = NoResult
    /\ merged_ids = <<>>
    /\ runs \in {<<built_indexes(
                      new_indexes(IndexHeader_new(1, 7, 9, 0), StoreRoot), files, 1)>>
                    : files \in FileTrees}
    /\ disk = EmptyDisk
    /\ origin = NoOrigin
    /\ out = NoOutcome

\* save_paths, save_exact (of the exact or the lowercased index) or
\* save_trigram writes the file of the kind
SaveOne(kind) ==
    /\ pc = "files"
    /\ out.op # "load"
    /\ origin[kind] = 0
    /\ LET s == CASE kind = "paths"  -> save_paths(runs[1].paths, disk[kind], NoFault)
                  [] kind = "exact"  -> save_exact(runs[1].exact, disk[kind], NoFault)
                  [] kind = "exacti" -> save_exact(runs[1].exact_lower, disk[kind], NoFault)
                  [] kind = "tri"    -> save_trigram(runs[1].trigram, disk[kind], NoFault)
       IN  /\ disk' = [disk EXCEPT ![kind] = s.file]
           /\ out' = [op |-> "save", kind |-> kind, result |-> s.result]
    /\ origin' = [origin EXCEPT ![kind] = 1]
    /\ UNCHANGED <<registry_vars, build_vars, legacy_vars, query_vars, runs>>

\* one file is altered from outside
Alter(kind, how) ==
    /\ pc = "files"
    /\ out.op # "load"
    /\ disk[kind] # None
    /\ \A k \in FileKinds : origin[k] \in {0, 1}
    /\ disk' = [disk EXCEPT ![kind] = Some(altered(disk[kind][1], how))]
    /\ origin' = [origin EXCEPT ![kind] = 2]
    /\ UNCHANGED <<registry_vars, build_vars, legacy_vars, query_vars, runs, out>>

\* a loader is called on one of the files
Load(loader, kind, maps_empty) ==
    /\ pc = "files"
    /\ out.op # "load"
    /\ out' = [op |-> "load", loader |-> loader, kind |-> kind,
               file |-> disk[kind],
               result |-> load_by(loader, disk[kind], maps_empty)]
    /\ UNCHANGED <<registry_vars, build_vars, legacy_vars, query_vars, runs,
                   disk, origin>>

NextFiles ==
    \/ \E kind \in FileKinds : SaveOne(kind)
    \/ \E kind \in FileKinds, how \in Alterations : Alter(kind, how)
    \/ \E loader \in Loaders, kind \in FileKinds, maps_empty \in BOOLEAN :
          Load(loader, kind, maps_empty)

SpecFiles == InitFiles /\ [][NextFiles]_vars

\* the magic a loader expects
ExpectedMagic(loader) ==
    IF loader \in {"load_paths", "load_paths_mmap"} THEN <<84, 75, 73, 80>>
    ELSE IF loader \in {"load_exact", "load_exact_mmap"} THEN <<84, 75, 73, 69>>
    ELSE <<84, 75, 73, 84>>

\* the loaded file has at least 4 bytes and they are not the loader's magic
WrongMagic ==
    /\ out.file # None
    /\ Len(out.file[1]) >= 4
    /\ SubSeq(out.file[1], 1, 4) # ExpectedMagic(out.loader)

\* the loaded file is a saved file of the loader's type whose version field
\* was overwritten
WrongVersion ==
    /\ out.file # None
    /\ Len(out.file[1]) >= 5
    /\ SubSeq(out.file[1], 1, 4) = ExpectedMagic(out.loader)
    /\ out.file[1][5] # 3
    /\ origin[out.kind] = 2

\* C14: a loader returns InvalidIndexFormat when the first 4 bytes of the
\* file are not the magic of its file type or when the decoded header has a
\* version other than 3, and returns an index only for a file that starts
\* with its magic and has version 3; so the file of one type is rejected by
\* the loaders of the other types.
C14_LoadersRejectMagicAndVersion ==
    out.op = "load" =>
        /\ (WrongMagic \/ WrongVersion) => out.result = Err("InvalidIndexFormat")
        /\ out.result.ok =>
              /\ Len(out.file[1]) >= 5
              /\ SubSeq(out.file[1], 1, 4) = ExpectedMagic(out.loader)
              /\ out.file[1][5] = 3

\* C14 witness: the exact file of an index with postings, as save_exact
\* wrote it, was handed to load_trigram
C14_Witness ==
    /\ out.op = "load"
    /\ out.loader = "load_trigram"
    /\ out.kind = "exact"
    /\ origin["exact"] = 1
    /\ DOMAIN runs[1].exact.token_map # {}
    /\ out.result = Err("InvalidIndexFormat")

\* the buffered or memory-mapped counterpart of a loader
Counterpart(loader) ==
    CASE loader = "load_paths"        -> "load_paths_mmap"
      [] loader = "load_paths_mmap"   -> "load_paths"
      [] loader = "load_exact"        -> "load_exact_mmap"
      [] loader = "load_exact_mmap"   -> "load_exact"
      [] loader = "load_trigram"      -> "load_trigram_mmap"
      [] loader = "load_trigram_mmap" -> "load_trigram"

\* C15: on every file content the buffered loader and the memory-mapped
\* loader of a file type return the same outcome: equal indexes or the same
\* kind of error.
C15_BufferedEqualsMmap ==
    out.op = "load" =>
        \A maps_empty \in BOOLEAN :
            load_by(Counterpart(out.loader), out.file, maps_empty) = out.result

\* C16: loading what a save wrote gives back the index: load_paths returns
\* the same header, root path, directories and files, with a lookup table
\* under which register_file behaves as on the saved index (known directory
\* reused, none duplicated, next dense id); load_exact and load_trigram
\* return the same header and map.
C16_SaveLoadRoundTrip ==
    (out.op = "load" /\ origin[out.kind] = 1) =>
        /\ (out.kind = "paths" /\ out.loader \in {"load_paths", "load_paths_mmap"}) =>
              /\ out.result.ok
              /\ out.result.value.header = runs[1].paths.header
              /\ out.result.value.root_path = runs[1].paths.root_path
              /\ out.result.value.directories = runs[1].paths.directories
              /\ out.result.value.files = runs[1].paths.files
              /\ \A path \in RegPaths :
                    LET r == register_file(out.result.value, path)
                        dirs == r.index.directories
                    IN  /\ r.file_id = Len(runs[1].paths.files)
                        /\ \A i \in 1..Len(dirs), j \in 1..Len(dirs) :
                              dirs[i] = dirs[j] => i = j
                        /\ Len(path) > 0 /\ SubSeq(path, 1, Len(path) - 1)
                                \in Range(runs[1].paths.directories)
                              => dirs = runs[1].paths.directories
        /\ (out.kind = "exact" /\ out.loader \in {"load_exact", "load_exact_mmap"}) =>
              out.result = Ok(runs[1].exact)
        /\ (out.kind = "exacti" /\ out.loader \in {"load_exact", "load_exact_mmap"}) =>
              out.result = Ok(runs[1].exact_lower)
        /\ (out.kind = "tri" /\ out.loader \in {"load_trigram", "load_trigram_mmap"}) =>
              out.result = Ok(runs[1].trigram)

\* ------------------------------------------------------------------------
\* The streaming build under fair scheduling: the walker thread, the thread
\* that runs scan_and_build_indexes, and the worker pool each take their
\* next step when they can.  A panic of the walker may or may not happen.
\* ------------------------------------------------------------------------
WalkerThread == WalkerStep \/ WalkerFinish

\* the steps of the thread that runs scan_and_build_indexes, but for
\* MergeStep; the thread is sequential, at most one of its steps is enabled
BuildThread == Dispatch \/ DispatchEnd \/ ScopeExit \/ Join \/ MergeEnd

WorkerPool == \E t \in tasks : Worker(t)

\* weak fairness of the worker pool and of the merge loop, written with the
\* enabling condition spelled out: a pending task is run, a buffered result
\* is merged
WorkerPoolFair == []<>(tasks = {}) \/ []<><<WorkerPool>>_vars

MergeFair ==
    []<>~(pc = "merge" /\ Len(result_chan) > 0) \/ []<><<MergeStep>>_vars

SpecLive ==
    /\ Init
    /\ [][Next]_vars
    /\ WF_vars(WalkerThread)
    /\ WF_vars(BuildThread)
    /\ WorkerPoolFair
    /\ MergeFair

\* the run is one of scan_and_build_indexes, which has a walker thread
Streaming == walker.status # "idle"

\* scan_and_build_indexes has returned
Returned == Streaming /\ pc \in {"done", "failed"}

Unindexable(file) ==
    \/ ~file.readable
    \/ Len(file.content) = 0
    \/ \E i \in 1..Len(file.content) : i <= 8192 /\ file.content[i] = 0

\* C18: a file the walker sent that cannot be read, is empty or is binary
\* is registered like any other (the k-th sent path has id k-1, so the ids
\* after it are unaffected), has its id in no exact and no trigram posting,
\* and the build fails only when the walker failed.
C18_UnindexableFilesAreHarmless ==
    Streaming =>
        /\ \A i \in IndexedIds :
              /\ calls[i + 1].file_id = i
              /\ calls[i + 1].path = SentPaths(Len(tree))[i + 1]
              /\ Unindexable(FileOf(i)) =>
                    /\ \A key \in DOMAIN exact_map : i \notin exact_map[key]
                    /\ \A key \in DOMAIN trigram_map : i \notin trigram_map[key]
                    /\ \A n \in 1..Len(result_chan) :
                          result_chan[n].file_id = i =>
                              /\ result_chan[n].exact_tokens = {}
                              /\ result_chan[n].trigrams = {}
        /\ pc = "failed" => walker.status \in {"err", "panicked"}
        /\ (pc = "done" /\ walker.status = "ok") =>
              Len(calls) = Len(SentPaths(Len(tree)))

\* C18 witness: the build returned with a binary file as id 0 and a text
\* file as id 1, whose id is in a posting
C18_Witness ==
    /\ pc = "done"
    /\ Len(calls) = 2
    /\ FileOf(0).readable /\ \E i \in 1..Len(FileOf(0).content) : FileOf(0).content[i] = 0
    /\ \E key \in DOMAIN exact_map : exact_map[key] = {1}

\* C19: when the walk yields an error entry the walker stops there with the
\* WalkDir error, and when the walker thread panics, scan_and_build_indexes
\* returns the error and no indexes, after every dispatched task has run;
\* the build does not hang.
C19_WalkerFailureIsReturned ==
    /\ [](Streaming =>
            /\ walker.status = "err" =>
                  /\ walker.pos < Len(tree)
                  /\ tree[walker.pos + 1].kind = "error"
            /\ walker.status \in {"err", "panicked"} =>
                  /\ pc \notin {"merge", "done"}
                  /\ qin = NoQuery
            /\ pc = "failed" =>
                  /\ walker.status \in {"err", "panicked"}
                  /\ tasks = {}
                  /\ Len(result_chan) = Len(calls))
    /\ (Streaming /\ walker.status \in {"err", "panicked"}) ~> (pc = "failed")
    /\ (/\ Streaming
        /\ walker.status = "running"
        /\ walker.pos < Len(tree)
        /\ tree[walker.pos + 1].kind = "error")
          ~> (walker.status \in {"err", "panicked"})

\* C19 witness: the build failed on a traversal error after the task of a
\* file registered before it had run
C19_Witness ==
    /\ pc = "failed"
    /\ walker.status = "err"
    /\ Len(calls) = 1
    /\ Len(result_chan) = 1

\* a pattern with an unclosed '[' does not compile
InvalidGlob(pattern) == \E i \in 1..Len(pattern) : pattern[i] = 91

\* C20: an operation given a glob pattern that does not compile reports
\* InvalidPattern instead of a file list: glob_files for its pattern, a query
\* for any entry of glob_patterns.
C20_InvalidPatternIsReported ==
    /\ (out.op = "glob_files" /\ InvalidGlob(out.pattern)) =>
          out.result = [ok |-> FALSE, error |-> "InvalidPattern"]
    /\ (/\ qin.mode = "exact"
        /\ qin.options.glob_patterns # None
        /\ \E i \in 1..Len(qin.options.glob_patterns[1]) :
              InvalidGlob(qin.options.glob_patterns[1][i])) =>
          qres = [ok |-> FALSE, error |-> "InvalidPattern"]

\* ------------------------------------------------------------------------
\* Case-insensitive exact postings
\* ------------------------------------------------------------------------
\* the posting of every token of every indexed file is contained in the
\* lowercased posting of the lowercased token
LowerPostingCovers ==
    \A i \in IndexedIds :
        Indexable(FileOf(i)) =>
            \A t \in IdentifierTokens(FileOf(i).content) :
                Len(t) >= MIN_TOKEN_LENGTH =>
                    Posting(exact_map, hash_token(t))
                        \subseteq Posting(exact_lower_map, hash_token(Lowered(t)))

\* the files query_exact_lower returns for the query of the state
LowerLookup ==
    Range(query_exact_lower(path_index, exact_lower_map, qin.query,
                            qin.options).files)

\* C21: after a build, the exact posting of each token of each indexed file
\* is a subset of the exact-lower posting of the lowercased token, and the
\* case-insensitive lookup of a lowercased query returns a superset of the
\* case-sensitive lookup of the same query.
C21_LowerLookupIsSuperset ==
    (Streaming /\ pc = "done") =>
        /\ LowerPostingCovers
        /\ (qin.mode = "exact" /\ qin.query = Lowered(qin.query)) =>
              Range(qres.files) \subseteq LowerLookup

\* ------------------------------------------------------------------------
\* AND and OR of one query
\* ------------------------------------------------------------------------
\* the query function of a mode on the indexes of the state
query_in(mode, query, options) ==
    IF mode = "exact" THEN query_exact(path_index, exact_map, query, options)
    ELSE IF mode = "exact_lower"
    THEN query_exact_lower(path_index, exact_lower_map, query, options)
    ELSE IF mode = "fuzzy"
    THEN query_fuzzy(path_index, trigram_map, query, options)
    ELSE query_with_options(path_index, token_map, query, options)

\* filters without limit: path_contains "S/", glob "*.R", exclude "B."
FilterOptions ==
    {[QueryOptions_default EXCEPT !.path_contains = Some(<<83, 47>>)],
     [QueryOptions_default EXCEPT !.glob_patterns = Some(<< <<42, 46, 82>> >>)],
     [QueryOptions_default EXCEPT !.exclude = Some(<<66, 46>>)]}

\* C22: for the same index, query text and filters (no limit), the files
\* returned with match_all = true are among those returned with match_all =
\* false, and a query of a single token returns the same files either way.
C22_AndWithinOr ==
    qin.mode # "none" =>
        /\ LET other == query_in(qin.mode, qin.query,
                                 [qin.options EXCEPT !.match_all = ~@])
           IN  /\ IF qin.options.match_all
                  THEN Range(qres.files) \subseteq Range(other.files)
                  ELSE Range(other.files) \subseteq Range(qres.files)
               /\ qres.query_token_count = 1 => qres.files = other.files
        /\ qin.mode = "exact" => \A f \in FilterOptions :
              LET all == query_in(qin.mode, qin.query, [f EXCEPT !.match_all = TRUE])
                  any == query_in(qin.mode, qin.query, [f EXCEPT !.match_all = FALSE])
              IN  /\ Range(all.files) \subseteq Range(any.files)
                  /\ all.query_token_count = 1 => all.files = any.files

\* C22 witness: an AND query of two matched tokens returned one file where
\* the OR query returns two
C22_Witness ==
    /\ qin.mode = "exact"
    /\ qin.options.match_all
    /\ qres.matched_token_count = 2
    /\ Len(qres.files) = 1
    /\ Len(query_in(qin.mode, qin.query,
                    [qin.options EXCEPT !.match_all = FALSE]).files) = 2

\* ------------------------------------------------------------------------
\* Directory de-duplication
\* ------------------------------------------------------------------------
\* the directory a path lies in: the path without its last component
DirOf(path) == IF Len(path) = 0 THEN <<>> ELSE SubSeq(path, 1, Len(path) - 1)

\* C23: after any sequence of register_file calls the directory sequence
\* holds no duplicate, every stored dir_index is below directory_count(),
\* and directory_count() <= file_count(), with equality exactly when the
\* registered files lie in pairwise distinct directories.
C23_DirectoriesAreDeduplicated ==
    /\ \A i, j \in 1..Len(path_index.directories) :
          path_index.directories[i] = path_index.directories[j] => i = j
    /\ \A k \in 1..Len(path_index.files) :
          path_index.files[k][1] < directory_count(path_index)
    /\ directory_count(path_index) <= file_count(path_index)
    /\ directory_count(path_index) = file_count(path_index)
          <=> \A i, j \in 1..Len(calls) :
                 DirOf(calls[i].path) = DirOf(calls[j].path) => i = j

\* C23 witness: three files registered, two of them in one directory
C23_Witness ==
    /\ Len(calls) = 3
    /\ directory_count(path_index) = 2
    /\ file_count(path_index) = 3
    /\ DirOf(calls[1].path) = DirOf(calls[3].path)
    /\ calls[1].path # calls[3].path

\* ------------------------------------------------------------------------
\* The pure functions on enumerated inputs: pack_trigram and unpack_trigram
\* (trigram.rs), intersect_bitmaps and union_bitmaps (query.rs),
\* tokenize_exact (tokenizer.rs) and extract_trigrams (trigram.rs)
\* ------------------------------------------------------------------------
\* x << n and x >> n; a byte shifted left by at most 16 stays below 2^24, so
\* the wrap of u32 is never reached
shl(x, n) == x * (2 ^ n)

shr(x, n) == x \div (2 ^ n)

\* x | y and x & y, bit by bit
RECURSIVE bitor(_, _)
bitor(x, y) ==
    IF x = 0 THEN y
    ELSE IF y = 0 THEN x
    ELSE (IF x % 2 = 1 \/ y % 2 = 1 THEN 1 ELSE 0) + 2 * bitor(x \div 2, y \div 2)

RECURSIVE bitand(_, _)
bitand(x, y) ==
    IF x = 0 \/ y = 0 THEN 0
    ELSE (IF x % 2 = 1 /\ y % 2 = 1 THEN 1 ELSE 0) + 2 * bitand(x \div 2, y \div 2)

\* `as u8`
as_u8(x) == x % 256

\* pack_trigram as written: ((a as u32) << 16) | ((b as u32) << 8) | (c as u32)
pack_trigram_bits(a, b, c) == bitor(bitor(shl(a, 16), shl(b, 8)), c)

\* faulty variant: the first two bytes are taken from each other's position
unpack_trigram_swapped(trigram) ==
    <<as_u8(bitand(shr(trigram, 8), 255)),
      as_u8(bitand(shr(trigram, 16), 255)),
      as_u8(bitand(trigram, 255))>>

unpack_trigram(trigram) ==
    <<as_u8(bitand(shr(trigram, 16), 255)),
      as_u8(bitand(shr(trigram, 8), 255)),
      as_u8(bitand(trigram, 255))>>

\* the bytes packed: both ends of the range, both sides of bit 7, letters
TrigramBytes == {0, 1, 2, 65, 97, 127, 128, 255}

\* nothing was computed yet
InitPure ==
    /\ path_index = PathIndex_new
    /\ calls = <<>>
    /\ config = ScanConfig_default
    /\ tree = <<>>
    /\ walker = [pos |-> 0, status |-> "idle"]
    /\ path_chan = <<>>
    /\ tasks = {}
    /\ result_chan = <<>>
    /\ exact_map = EmptyMap
    /\ exact_lower_map = EmptyMap
    /\ trigram_map = EmptyMap
    /\ pc = "pure"
    /\ legacy = NoLegacy
    /\ token_map = EmptyMap
    /\ qin = NoQuery
    /\ qres = NoResult
    /\ merged_ids = <<>>
    /\ StoreIdle

\* pack_trigram(a, b, c) and unpack_trigram of the key
PackTrigram(a, b, c) ==
    /\ pc = "pure"
    /\ out = NoOutcome
    /\ LET key == pack_trigram_bits(a, b, c)
       IN  out' = [op |-> "pack_trigram", bytes |-> <<a, b, c>>,
                   result |-> key, unpacked |-> unpack_trigram(key)]
    /\ UNCHANGED <<registry_vars, build_vars, legacy_vars, query_vars, runs,
                   disk, origin>>

\* the bitmaps combined: at most MaxBitmaps subsets of the ids 0..2
MaxBitmaps == 3

BitmapIds == 0..2

RECURSIVE BitmapLists(_)
BitmapLists(n) ==
    IF n = 0 THEN {<<>>}
    ELSE BitmapLists(n - 1)
         \cup {Append(l, b) : l \in {x \in BitmapLists(n - 1) : Len(x) = n - 1},
                              b \in SUBSET BitmapIds}

\* intersect_bitmaps and union_bitmaps of one list
CombineBitmaps(bitmaps) ==
    /\ pc = "pure"
    /\ out = NoOutcome
    /\ out' = [op |-> "combine", bitmaps |-> bitmaps,
               result |-> intersect_bitmaps(bitmaps),
               union |-> union_bitmaps(bitmaps)]
    /\ UNCHANGED <<registry_vars, build_vars, legacy_vars, query_vars, runs,
                   disk, origin>>

\* the texts scanned: at most MaxTextLen bytes out of 'a', 'B', '_', ' '
\* (a listed delimiter) and 0x01 (neither token byte nor listed delimiter)
MaxTextLen == 5

TextBytes == {97, 66, 95, 32, 1}

RECURSIVE Texts(_)
Texts(n) ==
    IF n = 0 THEN {<<>>}
    ELSE Texts(n - 1)
         \cup {Append(t, b) : t \in {x \in Texts(n - 1) : Len(x) = n - 1},
                              b \in TextBytes}

\* tokenize_exact and extract_trigrams of one text, collected
ScanText(content) ==
    /\ pc = "pure"
    /\ out = NoOutcome
    /\ out' = [op |-> "scan", content |-> content,
               result |-> tokenize_exact(content),
               trigrams |-> extract_trigrams(content)]
    /\ UNCHANGED <<registry_vars, build_vars, legacy_vars, query_vars, runs,
                   disk, origin>>

\* one function is applied per behaviour: no input is left once a result
\* was recorded
Pending(inputs) == IF out = NoOutcome THEN inputs ELSE {}

NextPure ==
    \/ \E a, b, c \in TrigramBytes : PackTrigram(a, b, c)
    \/ \E bitmaps \in Pending(BitmapLists(MaxBitmaps)) : CombineBitmaps(bitmaps)
    \/ \E content \in Pending(Texts(MaxTextLen)) : ScanText(content)

SpecPure == InitPure /\ [][NextPure]_vars

\* C24: for bytes a, b, c, unpack_trigram(pack_trigram(a, b, c)) = (a, b, c),
\* the key is a*65536 + b*256 + c and below 2^24, and distinct triples have
\* distinct keys.
C24_PackUnpackTrigram ==
    out.op = "pack_trigram" =>
        /\ out.unpacked = out.bytes
        /\ out.result = out.bytes[1] * 65536 + out.bytes[2] * 256 + out.bytes[3]
        /\ out.result = pack_trigram(out.bytes[1], out.bytes[2], out.bytes[3])
        /\ out.result < 2 ^ 24
        /\ \A a, b, c \in TrigramBytes :
              pack_trigram_bits(a, b, c) = out.result => <<a, b, c>> = out.bytes

\* C24 witness: the triple (255, 128, 1) packed and unpacked
C24_Witness ==
    /\ out.op = "pack_trigram"
    /\ out.bytes = <<255, 128, 1>>
    /\ out.result = 16744449

\* ------------------------------------------------------------------------
\* The walker and its channel alone: walk_and_send against the receiving
\* loop of scan_and_build_indexes
\* ------------------------------------------------------------------------
\* what a walk can yield: s/a.r ("ab"), s/B.h ("aba"), t/c ("ab"),
\* target/a.r ("ab", below an excluded directory), the directory s, and the
\* symbolic link s/l.r (follow_links(false) yields it as an entry of its own)
WalkEntries ==
    {[kind |-> "file", path |-> <<<<115>>, <<97, 46, 114>>>>,
      content |-> <<97, 98>>, readable |-> TRUE],
     [kind |-> "file", path |-> <<<<115>>, <<66, 46, 104>>>>,
      content |-> <<97, 98, 97>>, readable |-> TRUE],
     [kind |-> "file", path |-> <<<<116>>, <<99>>>>,
      content |-> <<97, 98>>, readable |-> TRUE],
     [kind |-> "file", path |-> <<<<116, 97, 114, 103, 101, 116>>, <<97, 46, 114>>>>,
      content |-> <<97, 98>>, readable |-> TRUE],
     [kind |-> "dir", path |-> <<<<115>>>>, content |-> <<>>, readable |-> FALSE],
     [kind |-> "symlink", path |-> <<<<115>>, <<108, 46, 114>>>>,
      content |-> <<>>, readable |-> TRUE]}

\* walks of at most three different entries
WalkTrees ==
    {<<>>}
    \cup {<<a>> : a \in WalkEntries}
    \cup {<<e[1], e[2]>> :
            e \in {t \in WalkEntries \X WalkEntries : t[1] # t[2]}}
    \cup {<<e[1], e[2], e[3]>> :
            e \in {t \in WalkEntries \X WalkEntries \X WalkEntries :
                     t[1] # t[2] /\ t[1] # t[3] /\ t[2] # t[3]}}

\* the default configuration, one with the extension list ["r"], and one
\* with max_file_size 2
WalkConfigs ==
    {ScanConfig_default,
     [ScanConfig_default EXCEPT !.extensions = {<<114>>}],
     [ScanConfig_default EXCEPT !.max_file_size = 2]}

\* a walk of more regular files than the channel holds: s/aaa, s/aab, ...
LongWalk ==
    [k \in 1..(PATH_CHANNEL_CAPACITY + 1) |->
        [kind |-> "file",
         path |-> <<<<115>>, <<97 + (k \div 676), 97 + ((k \div 26) % 26),
                               97 + (k % 26)>>>>,
         content |-> <<97, 98>>, readable |-> TRUE]]

\* scan_and_build_indexes has spawned the walker and entered the receiving
\* loop: either nothing was walked yet, or (on the long walk) the walker has
\* filled the channel before the first path was received
InitWalk ==
    /\ path_index = PathIndex_new
    /\ calls = <<>>
    /\ pc = "dispatch"
    /\ \/ /\ tree \in WalkTrees
          /\ config \in WalkConfigs
          /\ walker = [pos |-> 0, status |-> "running"]
          /\ path_chan = <<>>
       \/ /\ tree = LongWalk
          /\ config = ScanConfig_default
          /\ walker = [pos |-> PATH_CHANNEL_CAPACITY, status |-> "running"]
          /\ path_chan = [k \in 1..PATH_CHANNEL_CAPACITY |-> LongWalk[k].path]
    /\ tasks = {}
    /\ result_chan = <<>>
    /\ exact_map = EmptyMap
    /\ exact_lower_map = EmptyMap
    /\ trigram_map = EmptyMap
    /\ legacy = NoLegacy
    /\ token_map = EmptyMap
    /\ qin = NoQuery
    /\ qres = NoResult
    /\ merged_ids = <<>>
    /\ StoreIdle

NextWalk ==
    \/ WalkerStep
    \/ WalkerFinish
    \/ Dispatch

SpecWalk == InitWalk /\ [][NextWalk]_vars

\* the entry of the walk behind a path
EntryAt(path) == tree[CHOOSE k \in 1..Len(tree) : tree[k].path = path]

\* the paths sent so far: those received and those still in the channel
SentSoFar == {calls[i].path : i \in 1..Len(calls)} \cup Range(path_chan)

\* C25: every path walk_and_send sends is a regular file (no directory, no
\* symbolic link, no other entry type), has a configured extension when the
\* extension list is non-empty, has a size of at most max_file_size, and has
\* no component that equals an exclude pattern.
C25_OnlyFilteredRegularFilesAreSent ==
    Len(tree) <= 3 =>
        \A p \in SentSoFar :
            LET e == EntryAt(p) IN
            /\ e.kind = "file"
            /\ config.extensions # {} =>
                  /\ path_extension(p) # None
                  /\ path_extension(p)[1] \in config.extensions
            /\ Len(e.content) <= config.max_file_size
            /\ \A i \in 1..Len(p) : p[i] \notin config.exclude_patterns

\* the walker's next entry is one it would send
NextIsSent ==
    /\ walker.status = "running"
    /\ walker.pos < Len(tree)
    /\ tree[walker.pos + 1].kind \notin {"error", "dir"}
    /\ survives_read_dir(tree[walker.pos + 1], config.exclude_patterns)
    /\ passes_file_filter(tree[walker.pos + 1], config)

\* each step leaves the channel alone, puts one path at its back, or takes
\* the path at its front, which is the path then registered
ChannelIsFifo ==
    \/ /\ path_chan' = path_chan
       /\ calls' = calls
    \/ /\ walker.pos < Len(tree)
       /\ path_chan' = Append(path_chan, tree[walker.pos + 1].path)
       /\ calls' = calls
    \/ /\ Len(path_chan) > 0
       /\ path_chan' = Tail(path_chan)
       /\ calls' = Append(calls, [path |-> Head(path_chan),
                                  file_id |-> Len(calls)])
       /\ walker' = walker

\* C26: the walker-to-coordinator channel never holds more than 1024 paths;
\* while it is full a walker that has a path to send does not move, and
\* moves again only after a path was received; the channel neither loses
\* nor duplicates nor reorders paths.
C26_ChannelIsBoundedFifo ==
    /\ [](Len(path_chan) <= 1024)
    /\ [][(Len(path_chan) = 1024 /\ NextIsSent) => walker' = walker]_vars
    /\ [][ChannelIsFifo]_vars

\* C26 witness: the walker sent its last path after waiting on the full
\* channel, and the channel is full again
C26_Witness ==
    /\ Len(tree) = PATH_CHANNEL_CAPACITY + 1
    /\ walker.pos = Len(tree)
    /\ Len(path_chan) = PATH_CHANNEL_CAPACITY
    /\ Len(calls) = 1

\* ------------------------------------------------------------------------
\* Bitmap combination
\* ------------------------------------------------------------------------
\* the orders of a list of n elements
Orders(n) == {f \in [1..n -> 1..n] : \A i, j \in 1..n : f[i] = f[j] => i = j}

\* C27: intersect_bitmaps returns the set intersection of its inputs in
\* whatever order they are given (the empty bitmap for no input) and
\* union_bitmaps returns their set union.
C27_IntersectAndUnionAreExact ==
    out.op = "combine" =>
        LET b == out.bitmaps
            n == Len(b)
            meet == IF n = 0 THEN {}
                    ELSE {x \in b[1] : \A i \in 1..n : x \in b[i]}
        IN  /\ out.result = meet
            /\ out.union = UNION {b[i] : i \in 1..n}
            /\ \A f \in Orders(n) :
                  /\ intersect_bitmaps([i \in 1..n |-> b[f[i]]]) = meet
                  /\ union_bitmaps([i \in 1..n |-> b[f[i]]]) = out.union

\* C27 witness: three bitmaps given largest first, which the sort reorders,
\* with a non-empty intersection
C27_Witness ==
    /\ out.op = "combine"
    /\ out.bitmaps = <<{0, 1, 2}, {0, 1}, {1}>>
    /\ out.result = {1}
    /\ out.union = {0, 1, 2}

\* ------------------------------------------------------------------------
\* Scanners
\* ------------------------------------------------------------------------
\* the runs of class bytes of s that have at least n bytes, in order of
\* appearance
RunsInOrder(s, class, n) ==
    LET runs_ == {r \in MaximalRuns(s, class) : RunLen(r) >= n}
        starts == SortedSeq({r[1] : r \in runs_})
    IN  [i \in 1..Len(starts) |->
            CHOOSE r \in runs_ : r[1] = starts[i]]

\* position after one pass of the loop of ExactTokenIterator::next that
\* starts at `position`
ExactLoopStep(content, position) ==
    LET p1 == ExactTokenIterator_skip_delimiters(content, position)
        p2 == ExactTokenIterator_read_token(content, p1)
    IN  IF p1 >= Len(content) THEN Len(content) + 1
        ELSE IF p2 > p1 THEN p2 ELSE p1 + 1

\* C28: tokenize_exact yields, in order of appearance, the case-sensitive
\* hash of every maximal run of token bytes of at least 2 bytes and nothing
\* else; listed delimiters and unknown bytes both end a token and belong to
\* none; runs of one byte are skipped without ending the scan; each pass of
\* the loop moves the position forward, so the iterator terminates.
C28_ExactTokensAreMaximalRuns ==
    out.op = "scan" =>
        LET s == out.content
            runs_ == RunsInOrder(s, IdentifierBytes, 2)
        IN  /\ Len(out.result) = Len(runs_)
            /\ \A i \in 1..Len(runs_) :
                  out.result[i] = hash_token(SubSeq(s, runs_[i][1], runs_[i][2]))
            /\ \A position \in 0..(Len(s) - 1) :
                  ExactLoopStep(s, position) > position

\* C28 witness: "a\x01Ba a": a run of one byte, an unknown byte, a token, a
\* delimiter and another run of one byte
C28_Witness ==
    /\ out.op = "scan"
    /\ out.content = <<97, 1, 66, 97, 32>>
    /\ out.result = <<hash_token(<<66, 97>>)>>

\* the 3-byte windows of the lowercased runs of at least 3 token bytes, in
\* order
RECURSIVE WindowsOf(_, _, _)
WindowsOf(s, runs_, i) ==
    IF i > Len(runs_) THEN <<>>
    ELSE [k \in 1..(RunLen(runs_[i]) - 2) |->
            LET w == Lowered(SubSeq(s, runs_[i][1] + k - 1, runs_[i][1] + k + 1))
            IN  w[1] * 65536 + w[2] * 256 + w[3]]
         \o WindowsOf(s, runs_, i + 1)

\* the text with its letters in upper case
Uppered(s) == [i \in 1..Len(s) |-> IF s[i] \in 97..122 THEN s[i] - 32 ELSE s[i]]

\* C29: extract_trigrams yields, for each maximal run of n >= 3 token bytes
\* and in order, the n-2 sliding windows of the lowercased run; shorter runs
\* yield nothing and do not end the extraction; the output does not depend
\* on the letter case of the input, and lowercasing alters no byte outside
\* A-Z.
C29_TrigramsAreSlidingWindows ==
    out.op = "scan" =>
        LET s == out.content
        IN  /\ out.trigrams = WindowsOf(s, RunsInOrder(s, IdentifierBytes, 3), 1)
            /\ extract_trigrams(Lowered(s)) = out.trigrams
            /\ extract_trigrams(Uppered(s)) = out.trigrams
            /\ \A b \in 0..255 :
                  to_lowercase(b) = (IF b \in 65..90 THEN b + 32 ELSE b)

\* C29 witness: "a aBa": a run of one byte, then a run of three in mixed case
C29_Witness ==
    /\ out.op = "scan"
    /\ out.content = <<97, 32, 97, 66, 97>>
    /\ out.trigrams = <<97 * 65536 + 98 * 256 + 97>>

\* ------------------------------------------------------------------------
\* File ids of the legacy build
\* ------------------------------------------------------------------------
\* scan_and_index is running or has returned
LegacyBuild == pc \in {"l_chunks", "l_done"} /\ Len(legacy.files) > 0

\* the ids a posting map holds under any key
IdsOf(map) == UNION {map[k] : k \in DOMAIN map}

====
